---- MODULE Spec2Model ----
(***************************************************************************)
(* A model of the OpenAPI minifier (minifyOpenAPI and the passes it runs). *)
(*                                                                         *)
(* The document is a JSON tree.  A JSON value is a tagged record:          *)
(*   Str(toks)   a string, held as a sequence of tokens.  A token is one   *)
(*               special character ("*", "<", "[", " ", "\n", ...), a run  *)
(*               of digits, or a word of ordinary characters, none of      *)
(*               which any regular expression of the program singles out;  *)
(*   Bool(b), Num(n), Null;                                                *)
(*   Arr(items)  an array;                                                 *)
(*   Obj(ents)   an object: the sequence of its <<key, value>> pairs in    *)
(*               JavaScript's enumeration order;                           *)
(*   Undef       JavaScript's undefined (the value of a missing key).      *)
(* JSON.stringify is injective on such trees, so a JSON.stringify key is   *)
(* modelled by the tree it serialises.                                     *)
(***************************************************************************)
EXTENDS Integers, Sequences, FiniteSets, TLC

VARIABLES
  pc,               \* the position of minifyOpenAPI: the last stage it finished
  run,              \* 1 for the first call, 2 for the call on its output
  content,          \* the input text, as the JSON tree it denotes
  originalSpec,     \* parseOpenAPI's result
  spec,             \* the working copy
  prev,             \* the working copy before the last stage
  options,          \* the MinificationOptions of the call
  removedElements,  \* the statistics record
  minifiedContent,  \* the output text, as the JSON tree it denotes
  error             \* the message of the error minifyOpenAPI throws, if any

vars == <<pc, run, content, originalSpec, spec, prev, options, removedElements,
          minifiedContent, error>>

-----------------------------------------------------------------------------
(* JSON values                                                             *)

Str(toks) == [t |-> "s", s |-> toks]
Bool(b) == [t |-> "b", b |-> b]
Num(n) == [t |-> "n", n |-> n]
Null == [t |-> "z"]
Undef == [t |-> "u"]
Arr(items) == [t |-> "a", a |-> items]
Obj(ents) == [t |-> "o", e |-> ents]

\* A text that is not JSON: JSON.parse throws on it.
Malformed == [t |-> "x"]

\* One-token strings are the common case (type names, urls, names).
S1(tok) == Str(<<tok>>)

IsObject(v) == v.t = "o"
IsArray(v) == v.t = "a"
IsString(v) == v.t = "s"

\* JavaScript truthiness (!x is ~Truthy(x)).
Truthy(v) ==
  CASE v.t = "u" -> FALSE
    [] v.t = "z" -> FALSE
    [] v.t = "b" -> v.b
    [] v.t = "n" -> v.n # 0
    [] v.t = "s" -> v.s # <<>>
    [] OTHER -> TRUE

Keys(o) == [i \in 1..Len(o.e) |-> o.e[i][1]]
HasKey(o, k) == \E i \in 1..Len(o.e) : o.e[i][1] = k
Get(o, k) ==
  IF HasKey(o, k)
    THEN o.e[CHOOSE i \in 1..Len(o.e) : o.e[i][1] = k][2]
    ELSE Undef
\* obj[k] = v: an existing key keeps its place, a new key goes last.
Put(o, k, v) ==
  IF HasKey(o, k)
    THEN Obj([i \in 1..Len(o.e) |-> IF o.e[i][1] = k THEN <<k, v>> ELSE o.e[i]])
    ELSE Obj(Append(o.e, <<k, v>>))
\* delete obj[k]
Del(o, k) == Obj(SelectSeq(o.e, LAMBDA p : p[1] # k))

\* x.k of any value: undefined unless x is an object holding k.
Field(v, k) == IF IsObject(v) THEN Get(v, k) ELSE Undef

RECURSIVE Flatten(_)
Flatten(ss) == IF ss = <<>> THEN <<>> ELSE Head(ss) \o Flatten(Tail(ss))

RECURSIVE SumSeq(_)
SumSeq(ns) == IF ns = <<>> THEN 0 ELSE Head(ns) + SumSeq(Tail(ns))

\* index.toString() of the i-th item (JavaScript counts from 0).
IndexKey(i) == ToString(i - 1)

-----------------------------------------------------------------------------
(* minifyDescriptionText                                                   *)

Whitespace == {" ", "\n", "\t"}
\* The token of the backquote character, which a TLA+ string cannot hold.
Backquote == "BQ"
DigitRuns == {"0", "1", "2", "3", "4", "5", "6", "7", "8", "9", "10", "12"}

\* The length of the longest prefix of s made of tokens in P.
RECURSIVE RunLen(_, _)
RunLen(s, P) ==
  IF s = <<>> \/ Head(s) \notin P THEN 0 ELSE 1 + RunLen(Tail(s), P)

\* The length of the longest prefix of s holding no token c.
RECURSIVE RunLenNot(_, _)
RunLenNot(s, c) ==
  IF s = <<>> \/ Head(s) = c THEN 0 ELSE 1 + RunLenNot(Tail(s), c)

Drop(s, n) == SubSeq(s, n + 1, Len(s))

\* .replace(/<[^>]*>/g, '')
RECURSIVE StripHtml(_)
StripHtml(s) ==
  IF s = <<>> THEN <<>>
  ELSE IF Head(s) = "<" /\ RunLenNot(Tail(s), ">") < Len(s) - 1
    THEN StripHtml(Drop(s, RunLenNot(Tail(s), ">") + 2))
    ELSE <<Head(s)>> \o StripHtml(Tail(s))

\* .replace(/c{n}([^c]+)c{n}/g, '$1'): n = 2 for bold, 1 for italic and code.
RECURSIVE Unwrap(_, _, _)
Unwrap(s, c, n) ==
  IF s = <<>> THEN <<>>
  ELSE LET inner == RunLenNot(Drop(s, n), c)
           open == Len(s) >= n /\ \A i \in 1..n : s[i] = c
           close == Len(s) >= 2 * n + inner
                    /\ \A i \in 1..n : s[n + inner + i] = c
       IN IF open /\ inner >= 1 /\ close
            THEN SubSeq(s, n + 1, n + inner) \o Unwrap(Drop(s, 2 * n + inner), c, n)
            ELSE <<Head(s)>> \o Unwrap(Tail(s), c, n)

\* .replace(/\[([^\]]+)\]\([^)]+\)/g, '$1')
RECURSIVE Unlink(_)
Unlink(s) ==
  IF s = <<>> THEN <<>>
  ELSE LET text == RunLenNot(Tail(s), "]")
           rest == Drop(s, text + 2)
           url == IF rest = <<>> THEN 0 ELSE RunLenNot(Tail(rest), ")")
           hit == /\ Head(s) = "["
                  /\ text >= 1
                  /\ Len(s) >= text + 2
                  /\ rest # <<>> /\ Head(rest) = "("
                  /\ url >= 1
                  /\ Len(rest) >= url + 2
       IN IF hit
            THEN SubSeq(s, 2, text + 1) \o Unlink(Drop(rest, url + 2))
            ELSE <<Head(s)>> \o Unlink(Tail(s))

\* How many tokens /^#+\s*/, /^[-*]\s*/ or /^\d+\.\s*/ matches at the head of s
\* (0: no match).
LineMarkLen(s, kind) ==
  CASE kind = "header" ->
         LET h == RunLen(s, {"#"})
         IN IF h >= 1 THEN h + RunLen(Drop(s, h), Whitespace) ELSE 0
    [] kind = "list" ->
         IF s # <<>> /\ Head(s) \in {"-", "*"}
           THEN 1 + RunLen(Tail(s), Whitespace) ELSE 0
    [] kind = "numbered" ->
         LET d == RunLen(s, DigitRuns)
         IN IF d >= 1 /\ Len(s) > d /\ s[d + 1] = "."
              THEN d + 1 + RunLen(Drop(s, d + 1), Whitespace) ELSE 0

\* .replace(/^.../gm, ''): atStart says the scan stands at the start of a line.
RECURSIVE StripLineMarks(_, _, _)
StripLineMarks(s, kind, atStart) ==
  IF s = <<>> THEN <<>>
  ELSE LET m == IF atStart THEN LineMarkLen(s, kind) ELSE 0
       IN IF m > 0
            THEN StripLineMarks(Drop(s, m), kind, s[m] = "\n")
            ELSE <<Head(s)>> \o StripLineMarks(Tail(s), kind, Head(s) = "\n")

\* .replace(/\s+/g, ' ')
RECURSIVE CollapseWhitespace(_)
CollapseWhitespace(s) ==
  IF s = <<>> THEN <<>>
  ELSE IF Head(s) \in Whitespace
    THEN <<" ">> \o CollapseWhitespace(Drop(s, RunLen(s, Whitespace)))
    ELSE <<Head(s)>> \o CollapseWhitespace(Tail(s))

\* .replace(/\n\s*\n/g, ' ')
RECURSIVE CollapseBlankLines(_)
CollapseBlankLines(s) ==
  IF s = <<>> THEN <<>>
  ELSE LET blanks == RunLen(Tail(s), Whitespace)
           ends == {j \in 1..blanks : s[j + 1] = "\n"}
           last == CHOOSE j \in ends : \A k \in ends : k <= j
       IN IF Head(s) = "\n" /\ ends # {}
            THEN <<" ">> \o CollapseBlankLines(Drop(s, last + 1))
            ELSE <<Head(s)>> \o CollapseBlankLines(Tail(s))

\* .trim()
RECURSIVE TrimRight(_)
TrimRight(s) ==
  IF s # <<>> /\ s[Len(s)] \in Whitespace
    THEN TrimRight(SubSeq(s, 1, Len(s) - 1)) ELSE s

Trim(s) == TrimRight(Drop(s, RunLen(s, Whitespace)))

MinifyDescriptionText(description) ==
  Str(Trim(CollapseBlankLines(CollapseWhitespace(
    StripLineMarks(StripLineMarks(StripLineMarks(
      Unlink(Unwrap(Unwrap(Unwrap(StripHtml(description.s), "*", 2), "*", 1), Backquote, 1)),
      "header", TRUE), "list", TRUE), "numbered", TRUE)))))

-----------------------------------------------------------------------------
(* removeDeprecatedPaths                                                   *)

Operations == <<"get", "post", "put", "patch", "delete", "head", "options", "trace">>

\* operations.filter(op => op in pathItem)
PathOperations(pathItem) == SelectSeq(Operations, LAMBDA op : HasKey(pathItem, op))

\* isObject(operation) && operation.deprecated === true
IsDeprecatedOperation(pathItem, op) ==
  Field(Get(pathItem, op), "deprecated") = Bool(TRUE)

RECURSIVE DelAll(_, _)
DelAll(o, ks) == IF ks = <<>> THEN o ELSE DelAll(Del(o, Head(ks)), Tail(ks))

\* What the loop over Object.entries(spec.paths) does with one path item:
\* whether the path goes to pathsToRemove, and the path item it leaves behind.
DeprecatedPathItem(pathItem) ==
  IF ~IsObject(pathItem) THEN [remove |-> FALSE, item |-> pathItem]
  ELSE IF Get(pathItem, "deprecated") = Bool(TRUE)
    THEN [remove |-> TRUE, item |-> pathItem]
  ELSE LET pathOperations == PathOperations(pathItem)
           allOperationsDeprecated ==
             \A i \in 1..Len(pathOperations) :
               IsDeprecatedOperation(pathItem, pathOperations[i])
           cleaned ==
             DelAll(pathItem,
                    SelectSeq(pathOperations,
                              LAMBDA op : IsDeprecatedOperation(pathItem, op)))
       IN IF Len(pathOperations) = 0 THEN [remove |-> FALSE, item |-> pathItem]
          ELSE IF allOperationsDeprecated THEN [remove |-> TRUE, item |-> pathItem]
          ELSE [remove |-> Len(PathOperations(cleaned)) = 0, item |-> cleaned]

\* removeDeprecatedPaths with removedCount also counting the operations it
\* deletes one by one.
RemoveDeprecatedPathsCountingOperations(doc) ==
  LET paths == Get(doc, "paths")
      res == [i \in 1..Len(paths.e) |-> DeprecatedPathItem(paths.e[i][2])]
      idx == SelectSeq([i \in 1..Len(paths.e) |-> i], LAMBDA i : ~res[i].remove)
      kept == [j \in 1..Len(idx) |-> <<paths.e[idx[j]][1], res[idx[j]].item>>]
      deleted == [j \in 1..Len(idx) |->
                   Len(paths.e[idx[j]][2].e) - Len(res[idx[j]].item.e)]
  IN IF ~Truthy(paths) \/ ~IsObject(paths) THEN [spec |-> doc, count |-> 0]
     ELSE [spec |-> Put(doc, "paths", Obj(kept)),
           count |-> Len(paths.e) - Len(idx) + SumSeq(deleted)]

\* The result of removeDeprecatedPaths: the document and the returned count.
RemoveDeprecatedPaths(doc) ==
  LET paths == Get(doc, "paths")
  IN IF ~Truthy(paths) \/ ~IsObject(paths) THEN [spec |-> doc, count |-> 0]
     ELSE LET res == [i \in 1..Len(paths.e) |-> DeprecatedPathItem(paths.e[i][2])]
              idx == SelectSeq([i \in 1..Len(paths.e) |-> i], LAMBDA i : ~res[i].remove)
              kept == [j \in 1..Len(idx) |-> <<paths.e[idx[j]][1], res[idx[j]].item>>]
          IN [spec |-> Put(doc, "paths", Obj(kept)),
              count |-> Len(paths.e) - Len(idx)]

-----------------------------------------------------------------------------
(* extractCommonResponses                                                  *)

\* The keys that /^\d{3}$/ accepts, among the keys the documents use.
ThreeDigitKeys == {"200", "201", "204", "400", "401", "403", "404", "418", "500"}

\* currentPath[currentPath.length - 1] of the empty path.
NoKey == "<none>"

\* removeVariableContent: delete the fields of every object, recursively.
RECURSIVE RemoveVariableContent(_, _)
RemoveVariableContent(v, fields) ==
  IF IsArray(v)
    THEN Arr([i \in 1..Len(v.a) |-> RemoveVariableContent(v.a[i], fields)])
  ELSE IF IsObject(v)
    THEN LET kept == SelectSeq(v.e, LAMBDA p : p[1] \notin fields)
         IN Obj([i \in 1..Len(kept) |->
                  <<kept[i][1], RemoveVariableContent(kept[i][2], fields)>>])
  ELSE v

\* JSON.stringify(normalized), as the tree it serialises.
CreateResponseKey(response) == RemoveVariableContent(response, {"examples", "example"})

\* The test both traversals make of an entry: a response under `responses`.
IsResponseEntry(last, key, value) ==
  last = "responses" /\ key \in ThreeDigitKeys /\ IsObject(value)

\* collectResponses: the candidates in the order the traversal meets them.
RECURSIVE CollectResponses(_, _)
CollectResponses(v, last) ==
  IF IsArray(v)
    THEN Flatten([i \in 1..Len(v.a) |-> CollectResponses(v.a[i], IndexKey(i))])
  ELSE IF IsObject(v)
    THEN Flatten([i \in 1..Len(v.e) |->
           IF IsResponseEntry(last, v.e[i][1], v.e[i][2])
             THEN <<v.e[i][2]>>
             ELSE CollectResponses(v.e[i][2], v.e[i][1])])
  ELSE <<>>

\* The Map built by a collecting pass: one group per key, in first-seen order,
\* with the first-seen value and the number of locations.
GroupsOf(cands, keys) ==
  LET firsts == SelectSeq([i \in 1..Len(cands) |-> i],
                          LAMBDA i : \A j \in 1..(i - 1) : keys[j] # keys[i])
  IN [g \in 1..Len(firsts) |->
       [key |-> keys[firsts[g]],
        value |-> cands[firsts[g]],
        locations |-> Cardinality({i \in 1..Len(cands) : keys[i] = keys[firsts[g]]})]]

\* The threshold one lower, for comparison.
ResponseQualifiesAtTwo(locations) == locations >= 2

\* data.locations.length >= 3
ResponseQualifies(locations) == locations >= 3

StatusPhrases ==
  << <<"Unauthorized">>, <<"Forbidden">>, <<"Not", " ", "Found">>,
     <<"Bad", " ", "Request">>, <<"Too", " ", "Many", " ", "Requests">>,
     <<"Internal", " ", "Server", " ", "Error">>, <<"Success">>, <<"Created">>,
     <<"No", " ", "Content">> >>

IsPrefix(p, s) == Len(p) <= Len(s) /\ SubSeq(s, 1, Len(p)) = p

\* statusMatch[1].replace(/\s+/g, '')
RECURSIVE JoinWords(_)
JoinWords(toks) ==
  IF toks = <<>> THEN ""
  ELSE IF Head(toks) \in Whitespace THEN JoinWords(Tail(toks))
  ELSE Head(toks) \o JoinWords(Tail(toks))

ResponseFallbackNames ==
  <<"CommonError", "ApiError", "ValidationError", "AuthError", "ServerError",
    "ClientError", "NotFoundError", "ForbiddenError", "RateLimitError">>

\* generateResponseRefName without the counter, for comparison.
GenerateResponseRefNameUncounted(response, counter) ==
  LET description == Field(response, "description")
      hits == IF IsString(description)
                THEN SelectSeq(StatusPhrases, LAMBDA p : IsPrefix(p, description.s))
                ELSE <<>>
  IN IF hits # <<>> THEN JoinWords(hits[1]) ELSE ResponseFallbackNames[1] \o "1"

\* The regular expression is matched with the case the documents use.
GenerateResponseRefName(response, counter) ==
  LET description == Field(response, "description")
      hits == IF IsString(description)
                THEN SelectSeq(StatusPhrases, LAMBDA p : IsPrefix(p, description.s))
                ELSE <<>>
  IN IF hits # <<>>
       THEN IF counter = 0 THEN JoinWords(hits[1])
            ELSE JoinWords(hits[1]) \o ToString(counter + 1)
       ELSE ResponseFallbackNames[(counter % Len(ResponseFallbackNames)) + 1]
            \o ToString((counter \div Len(ResponseFallbackNames)) + 1)

\* commonResponses: the qualifying groups, each with its refName.
CommonResponses(doc) ==
  LET cands == CollectResponses(doc, NoKey)
      groups == GroupsOf(cands, [i \in 1..Len(cands) |-> CreateResponseKey(cands[i])])
      common == SelectSeq(groups, LAMBDA g : ResponseQualifies(g.locations))
  IN [j \in 1..Len(common) |->
       [key |-> common[j].key,
        value |-> common[j].value,
        refName |-> GenerateResponseRefName(common[j].value, j - 1)]]

ResponseRef(refName) == Obj(<< <<"$ref", Str(<<"#/components/responses/", refName>>)>> >>)

\* replaceWithRef: the rewritten value and the number of replacements.
RECURSIVE ReplaceResponses(_, _, _, _)
ReplaceResponses(v, last, responseKey, refName) ==
  IF IsArray(v)
    THEN LET r == [i \in 1..Len(v.a) |->
                    ReplaceResponses(v.a[i], IndexKey(i), responseKey, refName)]
         IN [v |-> Arr([i \in 1..Len(v.a) |-> r[i].v]),
             n |-> SumSeq([i \in 1..Len(v.a) |-> r[i].n])]
  ELSE IF IsObject(v)
    THEN LET r == [i \in 1..Len(v.e) |->
                    IF IsResponseEntry(last, v.e[i][1], v.e[i][2])
                      THEN IF CreateResponseKey(v.e[i][2]) = responseKey
                             THEN [v |-> ResponseRef(refName), n |-> 1]
                             ELSE [v |-> v.e[i][2], n |-> 0]
                      ELSE ReplaceResponses(v.e[i][2], v.e[i][1], responseKey, refName)]
         IN [v |-> Obj([i \in 1..Len(v.e) |-> <<v.e[i][1], r[i].v>>]),
             n |-> SumSeq([i \in 1..Len(v.e) |-> r[i].n])]
  ELSE [v |-> v, n |-> 0]

\* if (!spec.components) spec.components = {}; if (!spec.components[table]) ...
EnsureComponents(doc, table) ==
  LET d1 == IF Truthy(Get(doc, "components")) THEN doc ELSE Put(doc, "components", Obj(<<>>))
      c == Get(d1, "components")
  IN IF Truthy(Get(c, table)) THEN d1
     ELSE Put(d1, "components", Put(c, table, Obj(<<>>)))

\* spec.components[table][name] = value
PutComponent(doc, table, name, value) ==
  LET c == Get(doc, "components")
  IN Put(doc, "components", Put(c, table, Put(Get(c, table), name, value)))

\* The loop over commonResponses.entries(), from its j-th entry on.
RECURSIVE HoistResponses(_, _, _, _)
HoistResponses(doc, common, j, extractedCount) ==
  IF j > Len(common) THEN [spec |-> doc, count |-> extractedCount]
  ELSE LET added == PutComponent(doc, "responses", common[j].refName, common[j].value)
           r == ReplaceResponses(added, NoKey, common[j].key, common[j].refName)
       IN HoistResponses(r.v, common, j + 1, extractedCount + r.n)

\* extractCommonResponses returning the number of definitions it created.
ExtractCommonResponsesCountingDefinitions(doc) ==
  LET paths == Get(doc, "paths")
      common == CommonResponses(doc)
  IN IF ~Truthy(paths) \/ ~(IsObject(paths) \/ IsArray(paths)) THEN [spec |-> doc, count |-> 0]
     ELSE IF Len(common) = 0 THEN [spec |-> doc, count |-> 0]
     ELSE [spec |-> HoistResponses(EnsureComponents(doc, "responses"), common, 1, 0).spec,
           count |-> Len(common)]

ExtractCommonResponses(doc) ==
  LET paths == Get(doc, "paths")
      common == CommonResponses(doc)
  IN IF ~Truthy(paths) \/ ~(IsObject(paths) \/ IsArray(paths)) THEN [spec |-> doc, count |-> 0]
     ELSE IF Len(common) = 0 THEN [spec |-> doc, count |-> 0]
     ELSE HoistResponses(EnsureComponents(doc, "responses"), common, 1, 0)

-----------------------------------------------------------------------------
(* extractCommonSchemas                                                    *)

\* The length of a token inside JSON.stringify's output.
TokenLen(tok) == IF tok \in {"\n", "\t"} THEN 2 ELSE IF tok = Backquote THEN 1 ELSE Len(tok)

\* JSON.stringify(v).length
RECURSIVE JsonLen(_)
JsonLen(v) ==
  CASE v.t = "s" -> 2 + SumSeq([i \in 1..Len(v.s) |-> TokenLen(v.s[i])])
    [] v.t = "b" -> IF v.b THEN 4 ELSE 5
    [] v.t = "n" -> Len(ToString(v.n))
    [] v.t = "a" ->
         2 + SumSeq([i \in 1..Len(v.a) |-> JsonLen(v.a[i])])
           + (IF Len(v.a) > 0 THEN Len(v.a) - 1 ELSE 0)
    [] v.t = "o" ->
         2 + SumSeq([i \in 1..Len(v.e) |-> Len(v.e[i][1]) + 3 + JsonLen(v.e[i][2])])
           + (IF Len(v.e) > 0 THEN Len(v.e) - 1 ELSE 0)
    [] OTHER -> 4

IsInlineSchemaWorthExtracting(schema) ==
  IF ~IsObject(schema) THEN FALSE
  ELSE IF /\ Truthy(Get(schema, "type")) /\ IsString(Get(schema, "type"))
          /\ \A k \in {"properties", "enum", "items", "oneOf", "anyOf", "allOf"} :
               ~Truthy(Get(schema, k))
    THEN FALSE
  ELSE IF JsonLen(schema) < 50 THEN FALSE
  ELSE TRUE

CreateSchemaKey(schema) ==
  RemoveVariableContent(schema, {"examples", "example", "default", "description", "title"})

\* currentPath[0] === 'components' && currentPath[1] === 'schemas'
InComponentSchemas(path) ==
  Len(path) >= 2 /\ path[1] = "components" /\ path[2] = "schemas"

\* key === 'schema' && isObject(value) && !('$ref' in value)
IsInlineSchema(key, value) ==
  key = "schema" /\ IsObject(value) /\ ~HasKey(value, "$ref")

\* collectSchemas: the candidates in the order the traversal meets them.
RECURSIVE CollectSchemas(_, _)
CollectSchemas(v, path) ==
  IF IsArray(v)
    THEN Flatten([i \in 1..Len(v.a) |-> CollectSchemas(v.a[i], Append(path, IndexKey(i)))])
  ELSE IF IsObject(v)
    THEN Flatten([i \in 1..Len(v.e) |->
           IF InComponentSchemas(path) THEN <<>>
           ELSE IF IsInlineSchema(v.e[i][1], v.e[i][2])
                   /\ IsInlineSchemaWorthExtracting(v.e[i][2])
             THEN <<v.e[i][2]>>
             ELSE CollectSchemas(v.e[i][2], Append(path, v.e[i][1]))])
  ELSE <<>>

\* data.locations.length >= 3
SchemaQualifies(locations) == locations >= 3

SchemaFallbackNames ==
  <<"CommonSchema", "SharedSchema", "ReusableSchema", "ExtractedSchema",
    "CommonType", "SharedType", "ReusableType", "ExtractedType">>

\* counter === 0 ? base : `${base}${counter + 1}`
Numbered(base, counter) == IF counter = 0 THEN base ELSE base \o ToString(counter + 1)

GenerateSchemaRefName(schema, counter) ==
  LET type == Get(schema, "type")
      properties == Get(schema, "properties")
      props == IF IsObject(properties) THEN {properties.e[i][1] : i \in 1..Len(properties.e)}
               ELSE {}
      fallback == SchemaFallbackNames[(counter % Len(SchemaFallbackNames)) + 1]
                  \o ToString((counter \div Len(SchemaFallbackNames)) + 1)
  IN IF ~Truthy(type) THEN fallback
     ELSE IF type = S1("object") /\ Truthy(properties)
       THEN IF "message" \in props THEN Numbered("ErrorMessage", counter)
            ELSE IF "id" \in props /\ "name" \in props THEN Numbered("IdNameResource", counter)
            ELSE IF "status" \in props THEN Numbered("StatusObject", counter)
            ELSE Numbered("CommonObject", counter)
     ELSE IF type = S1("array") THEN Numbered("CommonArray", counter)
     ELSE IF type = S1("string") /\ Truthy(Get(schema, "enum"))
       THEN Numbered("CommonEnum", counter)
     ELSE fallback

\* commonSchemas: the qualifying groups, each with its refName.
CommonSchemas(doc) ==
  LET cands == CollectSchemas(doc, <<>>)
      groups == GroupsOf(cands, [i \in 1..Len(cands) |-> CreateSchemaKey(cands[i])])
      common == SelectSeq(groups, LAMBDA g : SchemaQualifies(g.locations))
  IN [j \in 1..Len(common) |->
       [key |-> common[j].key,
        value |-> common[j].value,
        refName |-> GenerateSchemaRefName(common[j].value, j - 1)]]

SchemaRef(refName) == Obj(<< <<"$ref", Str(<<"#/components/schemas/", refName>>)>> >>)

\* replaceWithRef: the rewritten value and the number of replacements.
RECURSIVE ReplaceSchemas(_, _, _, _)
ReplaceSchemas(v, path, schemaKey, refName) ==
  IF IsArray(v)
    THEN LET r == [i \in 1..Len(v.a) |->
                    ReplaceSchemas(v.a[i], Append(path, IndexKey(i)), schemaKey, refName)]
         IN [v |-> Arr([i \in 1..Len(v.a) |-> r[i].v]),
             n |-> SumSeq([i \in 1..Len(v.a) |-> r[i].n])]
  ELSE IF IsObject(v)
    THEN LET r == [i \in 1..Len(v.e) |->
                    IF InComponentSchemas(path) THEN [v |-> v.e[i][2], n |-> 0]
                    ELSE IF IsInlineSchema(v.e[i][1], v.e[i][2])
                      THEN IF CreateSchemaKey(v.e[i][2]) = schemaKey
                             THEN [v |-> SchemaRef(refName), n |-> 1]
                             ELSE [v |-> v.e[i][2], n |-> 0]
                      ELSE ReplaceSchemas(v.e[i][2], Append(path, v.e[i][1]),
                                          schemaKey, refName)]
         IN [v |-> Obj([i \in 1..Len(v.e) |-> <<v.e[i][1], r[i].v>>]),
             n |-> SumSeq([i \in 1..Len(v.e) |-> r[i].n])]
  ELSE [v |-> v, n |-> 0]

\* The loop over commonSchemas.entries(), from its j-th entry on.
RECURSIVE HoistSchemas(_, _, _, _)
HoistSchemas(doc, common, j, extractedCount) ==
  IF j > Len(common) THEN [spec |-> doc, count |-> extractedCount]
  ELSE LET added == PutComponent(doc, "schemas", common[j].refName, common[j].value)
           r == ReplaceSchemas(added, <<>>, common[j].key, common[j].refName)
       IN HoistSchemas(r.v, common, j + 1, extractedCount + r.n)

ExtractCommonSchemas(doc) ==
  LET paths == Get(doc, "paths")
      common == CommonSchemas(doc)
  IN IF ~Truthy(paths) \/ ~(IsObject(paths) \/ IsArray(paths)) THEN [spec |-> doc, count |-> 0]
     ELSE IF Len(common) = 0 THEN [spec |-> doc, count |-> 0]
     ELSE HoistSchemas(EnsureComponents(doc, "schemas"), common, 1, 0)

-----------------------------------------------------------------------------
(* minifyObject, processField and the cleaners they call                   *)
(*                                                                         *)
(* The program mutates the tree in place.  Each operator below returns the *)
(* final content of the object it is given.  Where the program replaces an *)
(* array by shallow copies of its items and then walks the original items  *)
(* (servers, parameters, root tags), a copy ends with its own top-level    *)
(* keys and with every nested object or array as the walk of the original  *)
(* left it: the two share them.  Arrays nested under `info` are outside    *)
(* the model.                                                              *)

Contains(path, k) == \E i \in 1..Len(path) : path[i] = k

MinimalDescriptions ==
  << <<"200", <<"Success">>>>, <<"201", <<"Created">>>>, <<"204", <<"No", " ", "Content">>>>,
     <<"400", <<"Bad", " ", "Request">>>>, <<"401", <<"Unauthorized">>>>,
     <<"403", <<"Forbidden">>>>, <<"404", <<"Not", " ", "Found">>>>,
     <<"412", <<"Precondition", " ", "Failed">>>>,
     <<"429", <<"Too", " ", "Many", " ", "Requests">>>>,
     <<"500", <<"Internal", " ", "Server", " ", "Error">>>>,
     <<"503", <<"Service", " ", "Unavailable">>>>,
     <<"504", <<"Gateway", " ", "Timeout">>>> >>

\* descriptions[statusCode] || 'Response'
GetMinimalResponseDescription(statusCode) ==
  LET hits == SelectSeq(MinimalDescriptions, LAMBDA p : p[1] = statusCode)
  IN IF hits # <<>> THEN Str(hits[1][2]) ELSE Str(<<"Response">>)

IsRequiredDescriptionField(path) ==
  \/ Contains(path, "responses") /\ path[Len(path)] = "description"
  \/ Contains(path, "tags") /\ path[Len(path)] = "description"

IsRequiredSummaryField(path) == FALSE

IsInSchema(path) ==
  \/ Contains(path, "schemas")
  \/ Contains(path, "properties")
  \/ Contains(path, "schema")
  \/ Contains(path, "components") /\ Contains(path, "schemas")

\* The isInSchema local to the description rule of processField.
IsInSchemaForDescription(path) ==
  \E i \in 1..Len(path) :
    \/ path[i] = "schemas"
    \/ path[i] = "properties"
    \/ path[i] = "components" /\ Contains(path, "schemas")

SchemaPropertiesToRemove ==
  {"format", "pattern", "minLength", "maxLength", "minimum", "maximum", "multipleOf",
   "exclusiveMinimum", "exclusiveMaximum", "minItems", "maxItems", "uniqueItems",
   "minProperties", "maxProperties", "additionalProperties", "title", "default",
   "readOnly", "writeOnly", "deprecated", "nullable"}

\* The balanced list without `pattern`, for comparison.
BalancedRemovalListWithoutPattern ==
  {"format", "title", "default", "readOnly", "writeOnly", "deprecated", "nullable"}
BalancedRemovalList ==
  {"format", "pattern", "title", "default", "readOnly", "writeOnly", "deprecated", "nullable"}

\* cleanSchemaProperties: whether it deletes obj[key].
CleanSchemaProperties(key, value, opts) ==
  \/ /\ opts.preset = "max"
     /\ \/ key \in SchemaPropertiesToRemove
        \/ key = "additionalProperties" /\ value # Bool(TRUE)
  \/ opts.preset = "balanced" /\ key \in BalancedRemovalList

\* The description rule of processField: whether it deletes the description.
DeletesDescription(currentPath, opts) ==
  \/ opts.keepDescriptions = "none" /\ ~IsRequiredDescriptionField(currentPath)
  \/ /\ opts.keepDescriptions = "schema-only"
     /\ ~IsRequiredDescriptionField(currentPath)
     /\ ~IsInSchemaForDescription(currentPath)

\* The pruned copy cleanInfoSection makes of contact and license.
Pick(o, ks) == Obj(SelectSeq([i \in 1..Len(ks) |-> <<ks[i], Get(o, ks[i])>>],
                             LAMBDA p : HasKey(o, p[1])))

\* cleanInfoSection: the content it leaves in obj.
CleanInfoSection(obj, opts) ==
  LET field(f) ==
        IF ~HasKey(obj, f) THEN <<>>
        ELSE IF f \in {"title", "version", "termsOfService"} THEN << <<f, Get(obj, f)>> >>
        ELSE IF f = "description"
          THEN IF opts.keepDescriptions = "none" THEN <<>>
               ELSE IF IsString(Get(obj, f))
                 THEN << <<f, MinifyDescriptionText(Get(obj, f))>> >>
               ELSE << <<f, Get(obj, f)>> >>
        ELSE IF ~IsObject(Get(obj, f)) THEN <<>>
        ELSE IF f = "contact" THEN << <<f, Pick(Get(obj, f), <<"name", "url", "email">>)>> >>
        ELSE << <<f, Pick(Get(obj, f), <<"name", "url">>)>> >>
  IN Obj(field("title") \o field("version") \o field("description")
         \o field("contact") \o field("license") \o field("termsOfService"))

\* The media-type loop of cleanResponses.
StripMediaExamples(mediaTypes) ==
  Obj([i \in 1..Len(mediaTypes.e) |->
        <<mediaTypes.e[i][1],
          IF IsObject(mediaTypes.e[i][2])
            THEN DelAll(mediaTypes.e[i][2], <<"examples", "example">>)
            ELSE mediaTypes.e[i][2]>>])

\* What cleanResponses puts at responses[statusCode].
CleanResponse(statusCode, response, opts) ==
  LET description == Get(response, "description")
      described ==
        IF ~Truthy(description) \/ opts.keepDescriptions = "none"
          THEN Put(response, "description", GetMinimalResponseDescription(statusCode))
        ELSE IF IsString(description)
          THEN Put(response, "description", MinifyDescriptionText(description))
        ELSE response
  IN IF ~opts.keepExamples /\ IsObject(Get(described, "content"))
       THEN Put(described, "content", StripMediaExamples(Get(described, "content")))
       ELSE described

CleanResponses(responses, opts) ==
  Obj([i \in 1..Len(responses.e) |->
        <<responses.e[i][1],
          IF IsObject(responses.e[i][2])
            THEN CleanResponse(responses.e[i][1], responses.e[i][2], opts)
            ELSE responses.e[i][2]>>])

\* The returns of processField that delete obj[key] and skip the recursion:
\* those ahead of the info rule, and the one cleanSchemaProperties makes.
DeletesEarly(key, value, currentPath, opts) ==
  \/ key = "examples" /\ ~opts.keepExamples
  \/ key = "description" /\ IsString(value) /\ DeletesDescription(currentPath, opts)
  \/ key = "summary" /\ ~opts.keepSummaries /\ ~IsRequiredSummaryField(currentPath)

DeletesInSchema(key, value, currentPath, opts) ==
  IsInSchema(currentPath) /\ CleanSchemaProperties(key, value, opts)

\* The rule of processField that settles what is left of obj: its two kinds
\* of return, the three arrays it replaces by copies, the info rule, or the
\* recursion alone.
ProcessFieldRule(obj, key, value, currentPath, opts) ==
  CASE DeletesEarly(key, value, currentPath, opts) -> "early return"
    [] ~DeletesEarly(key, value, currentPath, opts)
       /\ DeletesInSchema(key, value, currentPath, opts) -> "schema return"
    [] OTHER ->
       IF key = "tags" /\ ~opts.keepTags /\ IsArray(value) /\ Len(currentPath) = 1
         THEN "tags"
       ELSE IF key = "servers" /\ IsArray(value) THEN "servers"
       ELSE IF key = "parameters" /\ IsArray(value) THEN "parameters"
       ELSE IF currentPath[1] = "info" /\ IsObject(value) THEN "info"
       ELSE IF IsObject(value) \/ IsArray(value) THEN "recursion"
       ELSE "nothing"

\* obj after the description rule and cleanInfoSection.
CleanedObject(obj, key, value, currentPath, opts) ==
  LET described ==
        IF key = "description" /\ IsString(value)
          THEN Put(obj, key, MinifyDescriptionText(value)) ELSE obj
  IN IF currentPath[1] = "info" /\ IsObject(value)
       THEN CleanInfoSection(described, opts) ELSE described

\* The tags rule without its reduction to the name, for comparison.
CleanedTagsWhole(value, copies, walked) ==
  Arr([i \in 1..Len(value.a) |-> IF IsObject(value.a[i]) THEN copies[i] ELSE walked.a[i]])

\* cleanedTags: { name: tag.name } for the tag objects, the item itself (that
\* the recursion walks) for the rest.
CleanedTags(value, copies, walked) ==
  Arr([i \in 1..Len(value.a) |->
        IF IsObject(value.a[i]) /\ HasKey(value.a[i], "name")
          THEN Pick(copies[i], <<"name">>) ELSE walked.a[i]])

\* cleanedServers: the copies, their description deleted or normalized.
CleanedServers(value, copies, opts) ==
  Arr([i \in 1..Len(value.a) |->
        IF ~IsObject(value.a[i]) THEN value.a[i]
        ELSE IF opts.keepDescriptions = "none" THEN Del(copies[i], "description")
        ELSE IF IsString(Get(value.a[i], "description"))
          THEN Put(copies[i], "description",
                   MinifyDescriptionText(Get(value.a[i], "description")))
        ELSE copies[i]])

\* What processField leaves in obj, given its rule, obj after the description
\* and info rules, the copies of the items of `value` and `value` as the
\* recursion leaves it.
Settled(rule, obj, key, value, cleaned, copies, walked, opts) ==
  CASE rule = "early return" -> Del(obj, key)
    [] rule = "schema return" -> Del(cleaned, key)
    [] rule = "tags" -> Put(cleaned, key, CleanedTags(value, copies, walked))
    [] rule = "servers" -> Put(cleaned, key, CleanedServers(value, copies, opts))
    [] rule = "parameters" -> Put(cleaned, key, Arr(copies))
    [] rule = "info" ->
         IF key \in {"title", "version", "description", "termsOfService"}
            /\ HasKey(cleaned, key)
           THEN Put(cleaned, key, walked)
           ELSE cleaned
    [] rule = "recursion" ->
         IF walked = value \/ ~HasKey(cleaned, key) THEN cleaned ELSE Put(cleaned, key, walked)
    [] OTHER -> cleaned

RECURSIVE MinifyObject(_, _, _), MinifyKeys(_, _, _, _, _), ProcessField(_, _, _, _, _)
RECURSIVE Walked(_, _, _, _), ShallowCopy(_, _, _, _)

\* What processField(obj, key, value, ...) leaves in the object or array that
\* `value` is: unless it returns early, cleanResponses and the recursion
\* mutate it in place.
Walked(value, key, currentPath, opts) ==
  CASE IsObject(value) /\ ~DeletesEarly(key, value, currentPath, opts) ->
         MinifyObject(IF key = "responses" THEN CleanResponses(value, opts) ELSE value,
                      currentPath, opts)
    [] IsArray(value) /\ ~DeletesEarly(key, value, currentPath, opts) ->
         Arr([i \in 1..Len(value.a) |->
               MinifyObject(value.a[i], Append(currentPath, IndexKey(i)), opts)])
    [] OTHER -> value

\* A shallow copy { ...item } without the keys in `dropped`: it shares its
\* nested values with the item, which the recursion walks.
ShallowCopy(item, dropped, path, opts) ==
  LET kept == SelectSeq(item.e, LAMBDA p : p[1] \notin dropped)
  IN Obj([i \in 1..Len(kept) |->
           <<kept[i][1], Walked(kept[i][2], kept[i][1], Append(path, kept[i][1]), opts)>>])

ProcessField(obj, key, value, currentPath, opts) ==
  LET rule == ProcessFieldRule(obj, key, value, currentPath, opts)
      dropped == IF rule = "parameters" /\ ~opts.keepExamples
                   THEN {"examples", "example"} ELSE {}
  IN Settled(rule, obj, key, value,
             CleanedObject(obj, key, value, currentPath, opts),
             [i \in 1..(IF IsArray(value) THEN Len(value.a) ELSE 0) |->
               IF IsObject(value.a[i])
                 THEN ShallowCopy(value.a[i], dropped,
                                  Append(currentPath, IndexKey(i)), opts)
                 ELSE value.a[i]],
             Walked(value, key, currentPath, opts),
             opts)

\* minifyObject's loop without the branch that spares the root fields.
MinifyKeysUnprotected(obj, keys, i, path, opts) ==
  IF i > Len(keys) THEN obj
  ELSE MinifyKeys(ProcessField(obj, keys[i], Get(obj, keys[i]), Append(path, keys[i]), opts),
                  keys, i + 1, path, opts)

\* The loop of minifyObject over the keys it snapshotted, from the i-th on.
\* protected: the root-level branch that spares openapi, info and paths.
MinifyKeys(obj, keys, i, path, opts) ==
  IF i > Len(keys) \/ ~IsObject(obj) THEN obj
  ELSE LET key == keys[i]
           value == Get(obj, key)
           protected == path = <<>>
                        /\ (\E j \in 1..Len(keys) : keys[j] \in {"openapi", "info", "paths"})
                        /\ key \in {"openapi", "info", "paths"}
       IN MinifyKeys(IF ~protected
                       THEN ProcessField(obj, key, value, Append(path, key), opts)
                     ELSE IF IsObject(value)
                       THEN Put(obj, key, MinifyObject(value, <<key>>, opts))
                     ELSE obj,
                     keys, i + 1, path, opts)

MinifyObject(obj, path, opts) ==
  IF ~IsObject(obj) THEN obj ELSE MinifyKeys(obj, Keys(obj), 1, path, opts)

-----------------------------------------------------------------------------
(* removeUnusedComponents                                                  *)

\* value.match(/#\/components\/schemas\/(.+)$/): the names matched (none or one).
RECURSIVE JoinTokens(_)
JoinTokens(toks) == IF toks = <<>> THEN "" ELSE Head(toks) \o JoinTokens(Tail(toks))

SchemaRefMatch(value) ==
  LET at == {i \in 1..(Len(value.s) - 1) : value.s[i] = "#/components/schemas/"}
      first == CHOOSE i \in at : \A j \in at : i <= j
  IN IF at = {} THEN <<>> ELSE <<JoinTokens(Drop(value.s, first))>>

\* A Set in insertion order: the sequence without its repeats.
RECURSIVE AddAll(_, _)
AddAll(set, names) ==
  IF names = <<>> THEN set
  ELSE AddAll(IF \E i \in 1..Len(set) : set[i] = Head(names)
                THEN set ELSE Append(set, Head(names)),
              Tail(names))

\* findReferences: the names it adds, in the order it meets them.
RECURSIVE FindReferences(_, _)
FindReferences(obj, currentPath) ==
  IF ~(IsObject(obj) \/ IsArray(obj)) THEN <<>>
  ELSE IF currentPath # <<>> /\ currentPath[1] = "components" THEN <<>>
  ELSE IF IsArray(obj)
    THEN Flatten([i \in 1..Len(obj.a) |->
                   FindReferences(obj.a[i], Append(currentPath, IndexKey(i)))])
  ELSE Flatten([i \in 1..Len(obj.e) |->
         IF obj.e[i][1] = "$ref" /\ IsString(obj.e[i][2])
           THEN SchemaRefMatch(obj.e[i][2])
           ELSE FindReferences(obj.e[i][2], Append(currentPath, obj.e[i][1]))])

\* findRefsInSchema: the names it adds, in the order it meets them.
RECURSIVE FindRefsInSchema(_)
FindRefsInSchema(obj) ==
  IF ~(IsObject(obj) \/ IsArray(obj)) THEN <<>>
  ELSE IF IsArray(obj)
    THEN Flatten([i \in 1..Len(obj.a) |-> FindRefsInSchema(obj.a[i])])
  ELSE Flatten([i \in 1..Len(obj.e) |->
         IF obj.e[i][1] = "$ref" /\ IsString(obj.e[i][2])
           THEN SchemaRefMatch(obj.e[i][2])
           ELSE FindRefsInSchema(obj.e[i][2])])

\* findTransitiveReferences(schemaName, visited), on the state
\* st = [referencedSchemas, visited]; VisitAll is its loop over tempRefs.
RECURSIVE FindTransitiveReferences(_, _, _), VisitAll(_, _, _, _)
FindTransitiveReferences(schemas, schemaName, st) ==
  IF schemaName \in st.visited THEN st
  ELSE IF ~Truthy(Get(schemas, schemaName))
    THEN [st EXCEPT !.visited = @ \cup {schemaName}]
  ELSE LET tempRefs == AddAll(<<>>, FindRefsInSchema(Get(schemas, schemaName)))
       IN VisitAll(schemas, tempRefs, 1,
                   [referencedSchemas |-> AddAll(st.referencedSchemas, tempRefs),
                    visited |-> st.visited \cup {schemaName}])

VisitAll(schemas, names, i, st) ==
  IF i > Len(names) THEN st
  ELSE VisitAll(schemas, names, i + 1, FindTransitiveReferences(schemas, names[i], st))

\* The loop over initialRefs, each with a fresh visited set, from the i-th on.
RECURSIVE ReferencedSchemas(_, _, _, _)
ReferencedSchemas(schemas, initialRefs, i, referenced) ==
  IF i > Len(initialRefs) THEN referenced
  ELSE ReferencedSchemas(schemas, initialRefs, i + 1,
         FindTransitiveReferences(schemas, initialRefs[i],
           [referencedSchemas |-> referenced, visited |-> {}]).referencedSchemas)

\* { paths: spec.paths, ...(spec.webhooks && ...), ...(spec.callbacks && ...) }
LiveSections(doc) ==
  Obj(<< <<"paths", Get(doc, "paths")>> >>
      \o (IF Truthy(Get(doc, "webhooks")) THEN << <<"webhooks", Get(doc, "webhooks")>> >> ELSE <<>>)
      \o (IF Truthy(Get(doc, "callbacks")) THEN << <<"callbacks", Get(doc, "callbacks")>> >> ELSE <<>>))

\* removeUnusedComponents copying every referenced name, for comparison.
RemoveUnusedComponentsKeepingAbsent(doc) ==
  LET components == Get(doc, "components")
      schemas == Get(components, "schemas")
      initialRefs == AddAll(<<>>, FindReferences(LiveSections(doc), <<>>))
      referenced == ReferencedSchemas(schemas, initialRefs, 1, initialRefs)
      used == referenced
      usedSchemas == Obj([i \in 1..Len(used) |-> <<used[i], Get(schemas, used[i])>>])
      pruned == IF Len(used) = 0 THEN Del(components, "schemas")
                ELSE Put(components, "schemas", usedSchemas)
  IN IF ~Truthy(components) \/ ~Truthy(Field(components, "schemas")) THEN doc
     ELSE IF Len(pruned.e) = 0 THEN Del(doc, "components")
     ELSE Put(doc, "components", pruned)

RemoveUnusedComponents(doc) ==
  LET components == Get(doc, "components")
      schemas == Get(components, "schemas")
      initialRefs == AddAll(<<>>, FindReferences(LiveSections(doc), <<>>))
      referenced == ReferencedSchemas(schemas, initialRefs, 1, initialRefs)
      used == SelectSeq(referenced, LAMBDA n : Truthy(Get(schemas, n)))
      usedSchemas == Obj([i \in 1..Len(used) |-> <<used[i], Get(schemas, used[i])>>])
      pruned == IF Len(used) = 0 THEN Del(components, "schemas")
                ELSE Put(components, "schemas", usedSchemas)
  IN IF ~Truthy(components) \/ ~Truthy(Field(components, "schemas")) THEN doc
     ELSE IF Len(pruned.e) = 0 THEN Del(doc, "components")
     ELSE Put(doc, "components", pruned)

-----------------------------------------------------------------------------
(* parseOpenAPI, countNestedKey and the stages of minifyOpenAPI            *)

\* parseOpenAPI without its check of `paths`, for comparison.
ParseErrorIgnoringPaths(parsed) ==
  IF ~Truthy(parsed) \/ ~(IsObject(parsed) \/ IsArray(parsed))
    THEN "Invalid OpenAPI specification: not an object"
  ELSE IF ~Truthy(Field(parsed, "openapi")) THEN "Missing \"openapi\" field"
  ELSE IF ~Truthy(Field(parsed, "info")) THEN "Missing \"info\" field"
  ELSE ""

\* The checks parseOpenAPI makes of the parsed value: "" when it accepts it.
ParseError(parsed) ==
  IF ~Truthy(parsed) \/ ~(IsObject(parsed) \/ IsArray(parsed))
    THEN "Invalid OpenAPI specification: not an object"
  ELSE IF ~Truthy(Field(parsed, "openapi")) THEN "Missing \"openapi\" field"
  ELSE IF ~Truthy(Field(parsed, "info")) THEN "Missing \"info\" field"
  ELSE IF ~Truthy(Field(parsed, "paths")) THEN "Missing \"paths\" field"
  ELSE ""

RECURSIVE CountNestedKey(_, _)
CountNestedKey(obj, key) ==
  IF IsObject(obj)
    THEN (IF HasKey(obj, key) THEN 1 ELSE 0)
         + SumSeq([i \in 1..Len(obj.e) |-> CountNestedKey(obj.e[i][2], key)])
  ELSE IF IsArray(obj)
    THEN SumSeq([i \in 1..Len(obj.a) |-> CountNestedKey(obj.a[i], key)])
  ELSE 0

\* The trigger without its test of the count, for comparison.
PrunesComponentsByPreset(opts, deprecatedPaths) ==
  opts.preset = "max" \/ opts.preset = "balanced"

\* options.preset === 'max' || ... || removedElements.deprecatedPaths > 0
PrunesComponents(opts, deprecatedPaths) ==
  opts.preset = "max" \/ opts.preset = "balanced" \/ deprecatedPaths > 0

\* The three guards that end the transformation.
EnsureEssential(doc, original) ==
  LET restore(d, k) == IF ~Truthy(Get(d, k)) THEN Put(d, k, Get(original, k)) ELSE d
  IN restore(restore(restore(doc, "openapi"), "info"), "paths")

NoRemovals ==
  [examples |-> 0, descriptions |-> 0, summaries |-> 0, tags |-> 0,
   deprecatedPaths |-> 0, extractedResponses |-> 0, extractedSchemas |-> 0]

-----------------------------------------------------------------------------
(* Text in, text out                                                       *)

\* The three-digit keys in ascending order: an object enumerates its
\* integer-like keys first and ascending, whatever the order of the text.
AscendingStatusKeys == <<"200", "201", "204", "400", "401", "403", "404", "418", "500">>

\* JSON.parse / yaml.load: the value the text denotes.
RECURSIVE Parsed(_)
Parsed(text) ==
  IF IsArray(text) THEN Arr([i \in 1..Len(text.a) |-> Parsed(text.a[i])])
  ELSE IF IsObject(text)
    THEN LET ents == [i \in 1..Len(text.e) |-> <<text.e[i][1], Parsed(text.e[i][2])>>]
         IN Obj(Flatten([k \in 1..Len(AscendingStatusKeys) |->
                          SelectSeq(ents, LAMBDA p : p[1] = AscendingStatusKeys[k])])
                \o SelectSeq(ents, LAMBDA p : p[1] \notin ThreeDigitKeys))
  ELSE text

RECURSIVE DeepClone(_)
DeepClone(obj) ==
  IF IsArray(obj) THEN Arr([i \in 1..Len(obj.a) |-> DeepClone(obj.a[i])])
  ELSE IF IsObject(obj)
    THEN Obj([i \in 1..Len(obj.e) |-> <<obj.e[i][1], DeepClone(obj.e[i][2])>>])
  ELSE obj

\* serializeOpenAPI: the text of a value.  An undefined property is left
\* out and an undefined array item is written as null.
RECURSIVE SerializeOpenAPI(_)
SerializeOpenAPI(v) ==
  IF IsArray(v)
    THEN Arr([i \in 1..Len(v.a) |->
               IF v.a[i] = Undef THEN Null ELSE SerializeOpenAPI(v.a[i])])
  ELSE IF IsObject(v)
    THEN LET kept == SelectSeq(v.e, LAMBDA p : p[2] # Undef)
         IN Obj([i \in 1..Len(kept) |-> <<kept[i][1], SerializeOpenAPI(kept[i][2])>>])
  ELSE v

\* applyPreset: the options a preset stands for.
ApplyPreset(opts) ==
  CASE opts.preset = "balanced" ->
         [opts EXCEPT !.keepExamples = FALSE, !.keepDescriptions = "schema-only",
                      !.keepSummaries = FALSE, !.keepTags = FALSE]
    [] opts.preset = "max" ->
         [opts EXCEPT !.keepExamples = FALSE, !.keepDescriptions = "none",
                      !.keepSummaries = FALSE, !.keepTags = FALSE]
    [] opts.preset = "min" ->
         [opts EXCEPT !.keepExamples = TRUE, !.keepDescriptions = "all",
                      !.keepSummaries = TRUE, !.keepTags = TRUE]
    [] OTHER -> opts

-----------------------------------------------------------------------------
(* minifyOpenAPI, one action per stage                                     *)

\* The message of the SyntaxError JSON.parse throws.
SyntaxErrorMessage == "Unexpected token"

\* The message parseOpenAPI's try block throws with: "" when it returns.
ParseFailure(text) ==
  IF text = Malformed THEN SyntaxErrorMessage ELSE ParseError(Parsed(text))

\* The catch block of parseOpenAPI: the prefix and the message it wraps.
Wrapped(message) == <<"Failed to parse OpenAPI specification: ", message>>

NoError == <<>>

Parse ==
  /\ pc = "start"
  /\ IF ParseFailure(content) = ""
       THEN /\ originalSpec' = Parsed(content)
            /\ spec' = DeepClone(Parsed(content))
            /\ prev' = DeepClone(Parsed(content))
            /\ removedElements' = NoRemovals
            /\ pc' = "parsed"
            /\ UNCHANGED error
       ELSE /\ pc' = "failed"
            /\ error' = Wrapped(ParseFailure(content))
            /\ UNCHANGED <<originalSpec, spec, prev, removedElements>>
  /\ UNCHANGED <<run, content, options, minifiedContent>>

RemoveDeprecated ==
  /\ pc = "parsed"
  /\ pc' = "deprecated"
  /\ prev' = spec
  /\ IF options.removeDeprecated
       THEN /\ spec' = RemoveDeprecatedPaths(spec).spec
            /\ removedElements' = [removedElements EXCEPT
                 !.deprecatedPaths = RemoveDeprecatedPaths(spec).count]
       ELSE UNCHANGED <<spec, removedElements>>
  /\ UNCHANGED <<run, content, originalSpec, options, minifiedContent, error>>

ExtractResponses ==
  /\ pc = "deprecated"
  /\ pc' = "responses"
  /\ prev' = spec
  /\ IF options.extractCommonResponses
       THEN /\ spec' = ExtractCommonResponses(spec).spec
            /\ removedElements' = [removedElements EXCEPT
                 !.extractedResponses = ExtractCommonResponses(spec).count]
       ELSE UNCHANGED <<spec, removedElements>>
  /\ UNCHANGED <<run, content, originalSpec, options, minifiedContent, error>>

ExtractSchemas ==
  /\ pc = "responses"
  /\ pc' = "schemas"
  /\ prev' = spec
  /\ IF options.extractCommonSchemas
       THEN /\ spec' = ExtractCommonSchemas(spec).spec
            /\ removedElements' = [removedElements EXCEPT
                 !.extractedSchemas = ExtractCommonSchemas(spec).count]
       ELSE UNCHANGED <<spec, removedElements>>
  /\ UNCHANGED <<run, content, originalSpec, options, minifiedContent, error>>

Minify ==
  /\ pc = "schemas"
  /\ pc' = "minified"
  /\ prev' = spec
  /\ spec' = MinifyObject(spec, <<>>, options)
  /\ UNCHANGED <<run, content, originalSpec, options, removedElements, minifiedContent, error>>

\* The pruning stage taken before field reduction, for comparison.
PruneBeforeReduction ==
  /\ pc = "schemas"
  /\ pc' = "pruned"
  /\ prev' = spec
  /\ spec' = MinifyObject(IF PrunesComponents(options, removedElements.deprecatedPaths)
                            THEN RemoveUnusedComponents(spec) ELSE spec, <<>>, options)
  /\ UNCHANGED <<run, content, originalSpec, options, removedElements, minifiedContent, error>>

Prune ==
  /\ pc = "minified"
  /\ pc' = "pruned"
  /\ prev' = spec
  /\ spec' = IF PrunesComponents(options, removedElements.deprecatedPaths)
               THEN RemoveUnusedComponents(spec) ELSE spec
  /\ UNCHANGED <<run, content, originalSpec, options, removedElements, minifiedContent, error>>

Restore ==
  /\ pc = "pruned"
  /\ pc' = "restored"
  /\ prev' = spec
  /\ spec' = EnsureEssential(spec, originalSpec)
  /\ UNCHANGED <<run, content, originalSpec, options, removedElements, minifiedContent, error>>

\* The final counts, the actual removals and the serialization.
Serialize ==
  /\ pc = "restored"
  /\ pc' = "done"
  /\ removedElements' = [removedElements EXCEPT
       !.examples = CountNestedKey(originalSpec, "examples") - CountNestedKey(spec, "examples"),
       !.descriptions = CountNestedKey(originalSpec, "description")
                        - CountNestedKey(spec, "description"),
       !.summaries = CountNestedKey(originalSpec, "summary") - CountNestedKey(spec, "summary"),
       !.tags = CountNestedKey(originalSpec, "tags") - CountNestedKey(spec, "tags")]
  /\ minifiedContent' = SerializeOpenAPI(spec)
  /\ UNCHANGED <<run, content, originalSpec, spec, prev, options, error>>

MaxRuns == 2

\* The caller feeds the output text to minifyOpenAPI again, same options.
Rerun ==
  /\ pc = "done"
  /\ run < MaxRuns
  /\ run' = run + 1
  /\ content' = minifiedContent
  /\ pc' = "start"
  /\ UNCHANGED <<originalSpec, spec, prev, options, removedElements, minifiedContent, error>>

Next ==
  \/ Parse
  \/ RemoveDeprecated
  \/ ExtractResponses
  \/ ExtractSchemas
  \/ Minify
  \/ Prune
  \/ Restore
  \/ Serialize
  \/ Rerun

\* The state before the first call, for a set of inputs and of options.
Start(contents, optionSets) ==
  /\ pc = "start"
  /\ run = 1
  /\ content \in contents
  /\ options \in optionSets
  /\ originalSpec = Undef
  /\ spec = Undef
  /\ prev = Undef
  /\ removedElements = NoRemovals
  /\ minifiedContent = Undef
  /\ error = NoError

-----------------------------------------------------------------------------
(* The documents and the options the calls are made with                   *)

Info == Obj(<< <<"title", S1("API")>>, <<"version", S1("1")>> >>)

Document(info, paths, more) ==
  Obj(<< <<"openapi", S1("3.0.0")>> >>
      \o (IF info = Undef THEN <<>> ELSE << <<"info", info>> >>)
      \o << <<"paths", paths>> >> \o more)

JsonContent(schema) ==
  Obj(<< <<"application/json", Obj(<< <<"schema", schema>> >>)>> >>)

Described(words) == Obj(<< <<"description", Str(words)>> >>)

PathName(i) == "/p" \o ToString(i)

\* The options of a call: a preset the CLI applied, with the three passes
\* switched as given.
PresetOptions(preset, removeDeprecated, extractResponses, extractSchemas) ==
  ApplyPreset([keepExamples |-> TRUE, keepDescriptions |-> "all", keepSummaries |-> TRUE,
               keepTags |-> TRUE, removeDeprecated |-> removeDeprecated,
               extractCommonResponses |-> extractResponses,
               extractCommonSchemas |-> extractSchemas, preset |-> preset])

Presets == {"max", "balanced", "min"}

\* Schema graphs: NumSchemas component schemas, each with at most one
\* reference to another, one operation and a shared response definition.
NumSchemas == 3

SchemaName(i) == "S" \o ToString(i)

\* target 0: no reference; target -1: the boolean schema false.
SchemaBody(target) ==
  IF target = -1 THEN Bool(FALSE)
  ELSE IF target = 0 THEN Obj(<< <<"type", S1("object")>> >>)
  ELSE Obj(<< <<"type", S1("object")>>,
              <<"properties", Obj(<< <<"next", SchemaRef(SchemaName(target))>> >>)>> >>)

RefsDocument(root, first, targets, shared) ==
  LET ok == IF root = 0 THEN Described(<<"OK">>)
            ELSE Put(Described(<<"OK">>), "content", JsonContent(SchemaRef(SchemaName(root))))
      responses ==
        Obj(<< <<"200", ok>> >>
            \o (IF shared = 0 THEN <<>> ELSE << <<"404", ResponseRef("Shared")>> >>))
      schemas ==
        Obj([i \in 1..NumSchemas |->
              <<SchemaName(i), SchemaBody(IF i = 1 THEN first ELSE targets[i])>>])
      sharedResponse ==
        Put(Described(<<"Gone">>), "content", JsonContent(SchemaRef(SchemaName(shared))))
      components ==
        Obj(<< <<"schemas", schemas>> >>
            \o (IF shared = 0 THEN <<>>
                ELSE << <<"responses", Obj(<< <<"Shared", sharedResponse>> >>)>> >>))
  IN Document(Info,
              Obj(<< <<PathName(1), Obj(<< <<"get", Obj(<< <<"responses", responses>> >>)>> >>)>> >>),
              << <<"components", components>> >>)

InitRefs ==
  Start({RefsDocument(root, first, targets, shared) :
           root \in 0..NumSchemas, first \in -1..NumSchemas,
           targets \in [1..NumSchemas -> 0..NumSchemas], shared \in {0, NumSchemas}},
        {PresetOptions(p, FALSE, FALSE, FALSE) : p \in Presets})

\* Deprecation: up to NumPaths path items of the kinds below.
NumPaths == 2

Operation(deprecated) ==
  Obj((IF deprecated THEN << <<"deprecated", Bool(TRUE)>> >> ELSE <<>>)
      \o << <<"responses", Obj(<< <<"200", Described(<<"OK">>)>> >>)>> >>)

PathItemKinds ==
  { Obj(<< <<"get", Operation(FALSE)>> >>),
    Obj(<< <<"deprecated", Bool(TRUE)>>, <<"get", Operation(FALSE)>> >>),
    Obj(<< <<"get", Operation(TRUE)>>, <<"post", Operation(TRUE)>> >>),
    Obj(<< <<"get", Operation(FALSE)>>, <<"post", Operation(TRUE)>> >>),
    Obj(<< <<"get", Operation(TRUE)>>, <<"put", Operation(FALSE)>>,
           <<"delete", Operation(TRUE)>> >>),
    Obj(<< <<"summary", S1("empty")>> >>) }

InfoKinds ==
  { Undef, Info, Obj(<< <<"x-logo", Obj(<< <<"url", S1("logo")>> >>)>> >>),
    Put(Put(Info, "description", Str(<<"An", " ", "API">>)),
        "contact", Obj(<< <<"name", S1("me")>>, <<"x-id", S1("7")>> >>)) }

DeprecatedDocument(info, items) ==
  Document(info, Obj([i \in 1..Len(items) |-> <<PathName(i), items[i]>>]), <<>>)

InitDeprecated ==
  Start({DeprecatedDocument(info, items) :
           info \in InfoKinds,
           items \in UNION {[1..n -> PathItemKinds] : n \in 0..NumPaths}},
        {PresetOptions(p, d, FALSE, FALSE) : p \in Presets, d \in BOOLEAN})

\* Descriptions: one operation with a parameter, a server, a tag and two
\* responses; the first response carries one of the texts below, or none.
DescriptionTexts ==
  { <<"OK">>, <<" ">>, <<"<", "br", ">">>, <<"\n", "\t">>,
    <<"*", "*", "Bold", "*", "*", " ", "and", " ", Backquote, "code", Backquote>>,
    <<"#", " ", "Not", " ", "Found">> }

StringSchema(words) == Obj(<< <<"type", S1("string")>>, <<"description", Str(words)>> >>)

DescribedDocument(text) ==
  LET body == Obj(<< <<"type", S1("object")>>, <<"description", Str(<<"Body">>)>>,
                     <<"properties", Obj(<< <<"id", StringSchema(<<"Id">>)>> >>)>> >>)
      first == Obj((IF text = <<>> THEN <<>> ELSE << <<"description", Str(text)>> >>)
                   \o << <<"content", JsonContent(body)>> >>)
      parameter == Obj(<< <<"name", S1("id")>>, <<"in", S1("path")>>,
                          <<"description", Str(<<"The", " ", "id">>)>>,
                          <<"example", S1("7")>>,
                          <<"schema", StringSchema(<<"Key">>)>> >>)
      operation == Obj(<< <<"summary", S1("Read")>>,
                          <<"description", Str(<<"Reads", " ", "it">>)>>,
                          <<"tags", Arr(<<S1("t")>>)>>,
                          <<"parameters", Arr(<<parameter>>)>>,
                          <<"responses", Obj(<< <<"200", first>>, <<"404", Obj(<<>>)>> >>)>> >>)
  IN Document(Put(Info, "description", Str(<<"An", " ", "API">>)),
              Obj(<< <<PathName(1), Obj(<< <<"get", operation>> >>)>> >>),
              << <<"servers", Arr(<<Obj(<< <<"url", S1("u")>>,
                                           <<"description", Str(<<"Main">>)>> >>)>>)>>,
                 <<"tags", Arr(<<Obj(<< <<"name", S1("t")>>,
                                        <<"description", Str(<<"Things">>)>> >>)>>)>> >>)

InitDescriptions ==
  Start({DescribedDocument(text) : text \in DescriptionTexts \cup {<<>>}},
        [keepExamples : BOOLEAN, keepDescriptions : {"all", "schema-only", "none"},
         keepSummaries : BOOLEAN, keepTags : BOOLEAN, removeDeprecated : {FALSE},
         extractCommonResponses : {FALSE}, extractCommonSchemas : {FALSE},
         preset : {"unset", "max"}])

\* Extraction: MaxCopies operations; the first notFound of them answer 404
\* alike, the first failing of them answer 500 alike, and the first bodies
\* of them carry the same inline schema.  The first copy of each differs
\* from the others in a field the comparison key leaves out.
MaxCopies == 4

ErrorSchema(i) ==
  Obj((IF i = 1 THEN << <<"description", Str(<<"An", " ", "error">>)>> >> ELSE <<>>)
      \o << <<"type", S1("object")>>,
            <<"properties", Obj(<< <<"message", Obj(<< <<"type", S1("string")>> >>)>>,
                                   <<"code", Obj(<< <<"type", S1("integer")>> >>)>> >>)>> >>)

NotFoundResponse(i) ==
  Obj(<< <<"description", Str(<<"Not", " ", "Found">>)>>,
         <<"content",
           Obj(<< <<"text/plain",
                    Obj(<< <<"schema", Obj(<< <<"type", S1("string")>> >>)>> >>
                        \o (IF i = 1 THEN << <<"example", S1("gone")>> >> ELSE <<>>))>> >>)>> >>)

ExtractionDocument(notFound, failing, bodies) ==
  LET ok(i) == IF i <= bodies
                 THEN Put(Described(<<"OK">>), "content", JsonContent(ErrorSchema(i)))
                 ELSE Described(<<"OK">>)
      responses(i) ==
        Obj(<< <<"200", ok(i)>> >>
            \o (IF i <= notFound THEN << <<"404", NotFoundResponse(i)>> >> ELSE <<>>)
            \o (IF i <= failing THEN << <<"500", Described(<<"Oops">>)>> >> ELSE <<>>))
  IN Document(Info,
              Obj([i \in 1..MaxCopies |->
                    <<PathName(i), Obj(<< <<"get", Obj(<< <<"responses", responses(i)>> >>)>> >>)>>]),
              <<>>)

InitExtraction ==
  Start({ExtractionDocument(notFound, failing, bodies) :
           notFound \in 0..MaxCopies, failing \in 0..MaxCopies, bodies \in 0..MaxCopies},
        {PresetOptions(p, FALSE, r, s) : p \in Presets, r \in BOOLEAN, s \in BOOLEAN})

\* Schema keywords: a component schema property and a parameter schema that
\* carry any of the keywords below.
SchemaKeywords ==
  << <<"format", S1("email")>>, <<"pattern", S1("^.+@.+$")>>, <<"minLength", Num(3)>> >>

KeywordDocument(keywords) ==
  LET email == Obj(<< <<"type", S1("string")>> >>
                   \o SelectSeq(SchemaKeywords, LAMBDA p : p[1] \in keywords))
      user == Obj(<< <<"type", S1("object")>>,
                     <<"properties", Obj(<< <<"email", email>> >>)>> >>)
      parameter == Obj(<< <<"name", S1("email")>>, <<"in", S1("query")>>,
                          <<"schema", email>> >>)
      ok == Put(Described(<<"OK">>), "content", JsonContent(SchemaRef("User")))
      operation == Obj(<< <<"parameters", Arr(<<parameter>>)>>,
                          <<"responses", Obj(<< <<"200", ok>> >>)>> >>)
  IN Document(Info,
              Obj(<< <<PathName(1), Obj(<< <<"get", operation>> >>)>> >>),
              << <<"components", Obj(<< <<"schemas", Obj(<< <<"User", user>> >>)>> >>)>> >>)

\* The same document with an `additionalProperties` keyword on the User schema.
AdditionalValues == {Bool(TRUE), Bool(FALSE), Obj(<< <<"type", S1("string")>> >>)}

AdditionalDocument(keywords, additional) ==
  LET doc == KeywordDocument(keywords)
      user == Get(Get(Get(doc, "components"), "schemas"), "User")
  IN PutComponent(doc, "schemas", "User", Put(user, "additionalProperties", additional))

InitKeywords ==
  Start({KeywordDocument(keywords) : keywords \in SUBSET {"format", "pattern", "minLength"}}
          \cup {AdditionalDocument(keywords, additional) :
                  keywords \in {{}, {"format", "minLength"}}, additional \in AdditionalValues},
        {PresetOptions(p, FALSE, FALSE, FALSE) : p \in Presets \cup {"unset"}})

\* Examples: one operation whose request body media type, response media
\* type and parameter carry `example`, `examples`, or both, each or not.
ExampleKeys == << <<"example", S1("x")>>, <<"examples", Obj(<< <<"one", Obj(<< <<"value", S1("x")>> >>)>> >>)>> >>

ExampleDocument(carriers, keys) ==
  LET examples(c) == IF c \in carriers
                       THEN SelectSeq(ExampleKeys, LAMBDA p : p[1] \in keys) ELSE <<>>
      media(c) == Obj(<< <<"application/json",
                           Obj(<< <<"schema", Obj(<< <<"type", S1("string")>> >>)>> >>
                               \o examples(c))>> >>)
      parameter == Obj(<< <<"name", S1("id")>>, <<"in", S1("path")>> >> \o examples("parameter"))
      operation == Obj(<< <<"parameters", Arr(<<parameter>>)>>,
                          <<"requestBody", Obj(<< <<"content", media("requestBody")>> >>)>>,
                          <<"responses",
                            Obj(<< <<"200", Put(Described(<<"OK">>), "content",
                                                media("response"))>> >>)>> >>)
  IN Document(Info, Obj(<< <<PathName(1), Obj(<< <<"post", operation>> >>)>> >>), <<>>)

InitExamples ==
  Start({ExampleDocument(carriers, keys) :
           carriers \in SUBSET {"requestBody", "response", "parameter"},
           keys \in (SUBSET {"example", "examples"}) \ {{}}},
        {PresetOptions(p, FALSE, FALSE, FALSE) : p \in Presets}
          \cup [keepExamples : BOOLEAN, keepDescriptions : {"all"}, keepSummaries : {TRUE},
                keepTags : {TRUE}, removeDeprecated : {FALSE},
                extractCommonResponses : {FALSE}, extractCommonSchemas : {FALSE},
                preset : {"unset"}])

\* Info objects: with or without an extension key, with or without an
\* object-valued child.
InfoObjects ==
  LET contact == Obj(<< <<"name", S1("me")>>, <<"email", S1("me@x")>>, <<"x-id", S1("7")>> >>)
      license == Obj(<< <<"name", S1("MIT")>>, <<"url", S1("u")>>, <<"x-spdx", S1("MIT")>> >>)
      full == Obj(<< <<"title", S1("API")>>, <<"x-audience", S1("internal")>>,
                     <<"description", Str(<<"An", " ", "*", "API", "*">>)>>,
                     <<"contact", contact>>, <<"version", S1("1")>>,
                     <<"license", license>>, <<"termsOfService", S1("tos")>> >>)
  IN { Info, Put(Info, "x-audience", S1("internal")), full,
       Put(Info, "x-logo", Obj(<< <<"url", S1("logo")>> >>)),
       Put(Put(Info, "x-audience", S1("internal")), "license", license),
       Put(Put(Info, "termsOfService", S1("tos")), "x-audience", S1("internal")) }

InitInfo ==
  Start({Document(info, Obj(<< <<PathName(1), Obj(<< <<"get", Operation(FALSE)>> >>)>> >>), <<>>) :
           info \in InfoObjects},
        [keepExamples : {FALSE}, keepDescriptions : {"all", "schema-only", "none"},
         keepSummaries : {FALSE}, keepTags : {FALSE}, removeDeprecated : {FALSE},
         extractCommonResponses : {FALSE}, extractCommonSchemas : {FALSE},
         preset : {"unset", "max", "min"}])

\* Summaries: an info object, a path item, an operation, a parameter that is
\* a reference object and a server, each with a `summary` or without; the
\* info object with a contact or without.
SummaryHolders == {"info", "pathItem", "operation", "parameter", "server"}

SummaryDocument(holders, contact) ==
  LET summary(h) == IF h \in holders THEN << <<"summary", S1(h)>> >> ELSE <<>>
      info == Obj(Info.e \o summary("info")
                  \o (IF contact THEN << <<"contact", Obj(<< <<"name", S1("me")>> >>)>> >>
                      ELSE <<>>))
      parameter == Obj(<< <<"$ref", S1("#/components/parameters/Id")>> >>
                       \o summary("parameter"))
      operation == Obj(summary("operation")
                       \o << <<"parameters", Arr(<<parameter>>)>>,
                             <<"responses", Obj(<< <<"200", Described(<<"OK">>)>> >>)>> >>)
      pathItem == Obj(summary("pathItem") \o << <<"get", operation>> >>)
      id == Obj(<< <<"name", S1("id")>>, <<"in", S1("path")>> >>)
  IN Document(info, Obj(<< <<PathName(1), pathItem>> >>),
              << <<"servers", Arr(<<Obj(<< <<"url", S1("u")>> >> \o summary("server"))>>)>>,
                 <<"components", Obj(<< <<"parameters", Obj(<< <<"Id", id>> >>)>> >>)>> >>)

InitSummaries ==
  Start({SummaryDocument(holders, contact) :
           holders \in SUBSET SummaryHolders, contact \in BOOLEAN},
        [keepExamples : {FALSE}, keepDescriptions : {"schema-only"},
         keepSummaries : BOOLEAN, keepTags : {FALSE}, removeDeprecated : {FALSE},
         extractCommonResponses : {FALSE}, extractCommonSchemas : {FALSE},
         preset : {"unset", "balanced"}])

\* Pruning after deprecation: up to NumPaths path items; the operations of
\* the i-th refer to the schema Si, a deprecated operation next to a live
\* one to the schema Old; the schema Unused is referred to by nothing.
ReferringOperation(deprecated, name) ==
  Obj((IF deprecated THEN << <<"deprecated", Bool(TRUE)>> >> ELSE <<>>)
      \o << <<"responses",
              Obj(<< <<"200", Put(Described(<<"OK">>), "content",
                                  JsonContent(SchemaRef(name)))>> >>)>> >>)

PruningKinds == {"live", "dead", "all deprecated", "mixed"}

PruningPathItem(kind, name) ==
  CASE kind = "live" -> Obj(<< <<"get", ReferringOperation(FALSE, name)>> >>)
    [] kind = "dead" -> Obj(<< <<"deprecated", Bool(TRUE)>>,
                              <<"get", ReferringOperation(FALSE, name)>> >>)
    [] kind = "all deprecated" -> Obj(<< <<"get", ReferringOperation(TRUE, name)>> >>)
    [] OTHER -> Obj(<< <<"get", ReferringOperation(FALSE, name)>>,
                       <<"post", ReferringOperation(TRUE, "Old")>> >>)

PruningDocument(kinds) ==
  LET names == [i \in 1..Len(kinds) |-> SchemaName(i)] \o <<"Old", "Unused">>
  IN Document(Info,
              Obj([i \in 1..Len(kinds) |->
                    <<PathName(i), PruningPathItem(kinds[i], SchemaName(i))>>]),
              << <<"components",
                   Obj(<< <<"schemas",
                            Obj([i \in 1..Len(names) |-> <<names[i], SchemaBody(0)>>])>> >>)>> >>)

InitPruning ==
  Start({PruningDocument(kinds) : kinds \in UNION {[1..n -> PruningKinds] : n \in 1..NumPaths}},
        {PresetOptions(p, d, FALSE, FALSE) : p \in Presets \cup {"unset"}, d \in BOOLEAN})

\* Inputs the parser refuses (a text that is not JSON, values that are not
\* objects, documents without one of the root fields or with an empty
\* `openapi`), next to documents it accepts.
WithoutField(f) == Del(DeprecatedDocument(Info, <<Operation(FALSE)>>), f)

RefusedInputs ==
  { Malformed, Null, Num(3), S1("openapi"), Bool(TRUE), Arr(<<>>), Arr(<<Info>>), Obj(<<>>),
    WithoutField("openapi"), WithoutField("info"), WithoutField("paths"),
    Del(WithoutField("info"), "paths"),
    Put(DeprecatedDocument(Info, <<>>), "openapi", Str(<<>>)) }

InitParsing ==
  Start(RefusedInputs
          \cup {DeprecatedDocument(Info, items) :
                  items \in UNION {[1..n -> PathItemKinds] : n \in 0..1}},
        {PresetOptions(p, d, FALSE, FALSE) : p \in Presets, d \in BOOLEAN})

\* Naming: up to MaxGroups groups of three alike responses, or of three
\* alike inline schemas, in three paths.  The groups `first` and `second`
\* (0: none) have content a name is derived from, the others get a name of
\* the fallback pool; group g differs from the other groups in a field
\* that names it.
MaxGroups == 10

GroupName(g) == "g" \o ToString(g)

GroupResponse(g, derived) ==
  Obj(<< <<"description", Str(IF g \in derived THEN <<"Not", " ", "Found">> ELSE <<"Oops">>)>>,
         <<"x-group", S1(GroupName(g))>> >>)

GroupSchema(g, first, second) ==
  LET property == << <<GroupName(g), Obj(<< <<"type", S1("string")>> >>)>> >>
  IN IF g = first
       THEN Obj(<< <<"type", S1("object")>>,
                   <<"properties",
                     Obj(<< <<"message", Obj(<< <<"type", S1("string")>> >>)>> >> \o property)>> >>)
     ELSE IF g = second
       THEN Obj(<< <<"type", S1("array")>>,
                   <<"items", Obj(<< <<"type", S1("object")>>,
                                     <<"properties", Obj(property)>> >>)>> >>)
     ELSE Obj(<< <<"properties", Obj(property)>>,
                 <<"required", Arr(<<S1(GroupName(g))>>)>>,
                 <<"x-group", S1(GroupName(g))>> >>)

\* Group g sits under the status key of its number in the get operation,
\* from the tenth on in the post operation.
GroupsOfMethod(n, method) ==
  IF method = "get" THEN [i \in 1..(IF n < 9 THEN n ELSE 9) |-> i]
  ELSE [i \in 1..(IF n > 9 THEN n - 9 ELSE 0) |-> i + 9]

NamingDocument(kind, n, first, second) ==
  LET responses(method) ==
        IF kind = "responses"
          THEN Obj([i \in 1..Len(GroupsOfMethod(n, method)) |->
                     <<AscendingStatusKeys[i],
                       GroupResponse(GroupsOfMethod(n, method)[i], {first, second})>>])
          ELSE Obj(<< <<"200", Described(<<"OK">>)>> >>)
      body == Obj(<< <<"content",
                       Obj([g \in 1..n |->
                             <<GroupName(g),
                               Obj(<< <<"schema", GroupSchema(g, first, second)>> >>)>>])>> >>)
      operation(method) ==
        Obj((IF kind = "schemas" /\ method = "get" THEN << <<"requestBody", body>> >> ELSE <<>>)
            \o << <<"responses", responses(method)>> >>)
      pathItem == Obj(<< <<"get", operation("get")>> >>
                      \o (IF kind = "responses" /\ n > 9
                            THEN << <<"post", operation("post")>> >> ELSE <<>>))
  IN Document(Info, Obj([i \in 1..3 |-> <<PathName(i), pathItem>>]), <<>>)

InitNaming ==
  Start({NamingDocument(kind, n, first, second) :
           kind \in {"responses", "schemas"}, n \in 0..MaxGroups,
           first \in {0, 1, MaxGroups - 1}, second \in {0, 2}},
        {PresetOptions("min", FALSE, r, s) : r \in BOOLEAN, s \in BOOLEAN})

\* Normalization: one operation with a parameter, a response and a body
\* schema, one server and one tag.  One of the seven description holders
\* carries one of the texts below, the others a plain word.
BoldAndLink ==
  <<"*", "*", "Bold", "*", "*", " ", "and", " ",
    "[", "a", " ", "link", "]", "(", "http://x", ")">>

NormalizationTexts ==
  { BoldAndLink,
    <<"<", "b", ">", "Run", "<", "/b", ">", " ", Backquote, "code", Backquote>>,
    <<"#", "#", " ", "Title", "\n", "-", " ", "one", "\n", "*", " ", "two", "\n",
      "1", ".", " ", "three">>,
    <<" ", "\t", "a", " ", " ", "\n", "\n", "b", "\n">>,
    <<"OK">> }

DescriptionHolders ==
  {"info", "operation", "parameter", "response", "schema", "server", "tag"}

NormalizationDocument(holder, text) ==
  LET words(h) == IF h = holder THEN Str(text) ELSE Str(<<"Plain">>)
      body == Obj(<< <<"type", S1("string")>>, <<"description", words("schema")>> >>)
      parameter == Obj(<< <<"name", S1("id")>>, <<"in", S1("query")>>,
                          <<"description", words("parameter")>>,
                          <<"schema", Obj(<< <<"type", S1("string")>> >>)>> >>)
      response == Obj(<< <<"description", words("response")>>,
                         <<"content", JsonContent(body)>> >>)
      operation == Obj(<< <<"description", words("operation")>>,
                          <<"parameters", Arr(<<parameter>>)>>,
                          <<"responses", Obj(<< <<"200", response>> >>)>> >>)
  IN Document(Put(Info, "description", words("info")),
              Obj(<< <<PathName(1), Obj(<< <<"get", operation>> >>)>> >>),
              << <<"servers", Arr(<<Obj(<< <<"url", S1("u")>>,
                                           <<"description", words("server")>> >>)>>)>>,
                 <<"tags", Arr(<<Obj(<< <<"name", S1("t")>>,
                                        <<"description", words("tag")>> >>)>>)>> >>)

InitNormalization ==
  Start({NormalizationDocument(holder, text) :
           holder \in DescriptionHolders, text \in NormalizationTexts},
        [keepExamples : {TRUE}, keepDescriptions : {"all", "schema-only", "none"},
         keepSummaries : {TRUE}, keepTags : BOOLEAN, removeDeprecated : {FALSE},
         extractCommonResponses : {FALSE}, extractCommonSchemas : {FALSE},
         preset : {"unset"}])

\* Key order: three operations that answer 404 alike and carry the same
\* body schema; each copy lists its keys in the order written here or in
\* the reverse order.
Reversed(o) == Obj([i \in 1..Len(o.e) |-> o.e[Len(o.e) + 1 - i]])

OrderDocument(responseOrder, schemaOrder) ==
  LET ordered(o, reversed) == IF reversed THEN Reversed(o) ELSE o
      ok(i) == Put(Described(<<"OK">>), "content",
                   JsonContent(ordered(ErrorSchema(2), schemaOrder[i])))
      responses(i) ==
        Obj(<< <<"200", ok(i)>>, <<"404", ordered(NotFoundResponse(2), responseOrder[i])>> >>)
  IN Document(Info,
              Obj([i \in 1..3 |->
                    <<PathName(i), Obj(<< <<"get", Obj(<< <<"responses", responses(i)>> >>)>> >>)>>]),
              <<>>)

InitOrder ==
  Start({OrderDocument(responseOrder, schemaOrder) :
           responseOrder \in [1..3 -> BOOLEAN], schemaOrder \in [1..3 -> BOOLEAN]},
        {PresetOptions("min", FALSE, r, s) : r \in BOOLEAN, s \in BOOLEAN})

\* Closures: NumSchemas component schemas, each with at most one reference
\* to another schema or to a name the table lacks; the first may refer to
\* itself as well, and the operation refers to the first and, possibly, to
\* the absent name.
AbsentName == SchemaName(NumSchemas + 1)

ClosureDocument(self, targets, dangling) ==
  LET body(i) ==
        Obj(<< <<"type", S1("object")>>,
               <<"properties",
                 Obj((IF targets[i] = 0 THEN <<>>
                      ELSE << <<"next", SchemaRef(SchemaName(targets[i]))>> >>)
                     \o (IF i = 1 /\ self
                           THEN << <<"self", SchemaRef(SchemaName(1))>> >> ELSE <<>>))>> >>)
      responses ==
        Obj(<< <<"200", Put(Described(<<"OK">>), "content", JsonContent(SchemaRef(SchemaName(1))))>> >>
            \o (IF dangling
                  THEN << <<"404", Put(Described(<<"Gone">>), "content",
                                       JsonContent(SchemaRef(AbsentName)))>> >>
                  ELSE <<>>))
  IN Document(Info,
              Obj(<< <<PathName(1), Obj(<< <<"get", Obj(<< <<"responses", responses>> >>)>> >>)>> >>),
              << <<"components",
                   Obj(<< <<"schemas", Obj([i \in 1..NumSchemas |-> <<SchemaName(i), body(i)>>])>> >>)>> >>)

InitClosure ==
  Start({ClosureDocument(self, targets, dangling) :
           self \in BOOLEAN, targets \in [1..NumSchemas -> 0..(NumSchemas + 1)],
           dangling \in BOOLEAN},
        {PresetOptions("max", FALSE, FALSE, FALSE)})

\* Stages: MaxCopies operations, the first `copies` of them with the same
\* 404 response and, in 200 responses of their own, the same body schema;
\* the first operation may be deprecated, and the schema table has an entry
\* nothing refers to.
StagesDocument(copies, deprecated) ==
  LET ok(i) == IF i <= copies
                 THEN Put(Described(<<"OK", " ", ToString(i)>>), "content",
                          JsonContent(ErrorSchema(2)))
                 ELSE Described(<<"OK", " ", ToString(i)>>)
      responses(i) ==
        Obj(<< <<"200", ok(i)>> >>
            \o (IF i <= copies THEN << <<"404", NotFoundResponse(2)>> >> ELSE <<>>))
      operation(i) ==
        Obj((IF i = 1 /\ deprecated THEN << <<"deprecated", Bool(TRUE)>> >> ELSE <<>>)
            \o << <<"description", Str(<<"Reads", " ", "it">>)>>,
                  <<"responses", responses(i)>> >>)
  IN Document(Info,
              Obj([i \in 1..MaxCopies |-> <<PathName(i), Obj(<< <<"get", operation(i)>> >>)>>]),
              << <<"components",
                   Obj(<< <<"schemas", Obj(<< <<"Unused", Obj(<< <<"type", S1("object")>> >>)>> >>)>> >>)>> >>)

InitStages ==
  Start({StagesDocument(copies, deprecated) :
           copies \in 2..MaxCopies, deprecated \in BOOLEAN},
        {PresetOptions(p, d, r, s) :
           p \in Presets, d \in BOOLEAN, r \in BOOLEAN, s \in BOOLEAN})

\* Indirect references: the schema S1, which refers to S2, is referred to
\* from one place only: a response, a parameter or a request body of the
\* components that an operation refers to, MaxCopies equal inline responses
\* of the operations ("hoisted"), or the operation itself ("direct").
IndirectKinds == {"responses", "parameters", "requestBodies", "hoisted", "direct"}

ComponentRef(table, name) == Obj(<< <<"$ref", Str(<<"#/components/" \o table \o "/", name>>)>> >>)

IndirectDocument(kind) ==
  LET target == SchemaRef(SchemaName(1))
      gone == Put(Described(<<"Not", " ", "Found">>), "content", JsonContent(target))
      ok == IF kind = "direct"
              THEN Put(Described(<<"OK">>), "content", JsonContent(target))
              ELSE Described(<<"OK">>)
      operation(i) ==
        Obj((IF kind = "parameters"
               THEN << <<"parameters", Arr(<<ComponentRef("parameters", "Id")>>)>> >>
               ELSE <<>>)
            \o (IF kind = "requestBodies"
                  THEN << <<"requestBody", ComponentRef("requestBodies", "Body")>> >>
                  ELSE <<>>)
            \o << <<"responses",
                    Obj(<< <<"200", ok>> >>
                        \o (IF kind = "responses"
                              THEN << <<"404", ComponentRef("responses", "Shared")>> >>
                            ELSE IF kind = "hoisted" THEN << <<"404", gone>> >>
                            ELSE <<>>))>> >>)
      schemas ==
        Obj(<< <<SchemaName(1), SchemaBody(2)>>, <<SchemaName(2), SchemaBody(0)>>,
               <<"Unused", SchemaBody(0)>> >>)
      components ==
        Obj(<< <<"schemas", schemas>> >>
            \o (IF kind = "responses"
                  THEN << <<"responses", Obj(<< <<"Shared", gone>> >>)>> >> ELSE <<>>)
            \o (IF kind = "parameters"
                  THEN << <<"parameters",
                            Obj(<< <<"Id", Obj(<< <<"name", S1("id")>>, <<"in", S1("query")>>,
                                                  <<"schema", target>> >>)>> >>)>> >>
                  ELSE <<>>)
            \o (IF kind = "requestBodies"
                  THEN << <<"requestBodies",
                            Obj(<< <<"Body", Obj(<< <<"content", JsonContent(target)>> >>)>> >>)>> >>
                  ELSE <<>>))
  IN Document(Info,
              Obj([i \in 1..MaxCopies |-> <<PathName(i), Obj(<< <<"get", operation(i)>> >>)>>]),
              << <<"components", components>> >>)

InitIndirect ==
  Start({IndirectDocument(kind) : kind \in IndirectKinds},
        {PresetOptions(p, FALSE, r, FALSE) : p \in Presets, r \in BOOLEAN})

\* Existing components: `copies` operations with the same inline 404
\* response, or the same inline body schema, and a component of the same
\* table that an operation refers to; the component has the name extraction
\* generates for the group (taken) or another one.
ExistingDocument(kind, copies, taken) ==
  LET name == IF ~taken THEN "Kept"
              ELSE IF kind = "responses" THEN "NotFound" ELSE "ErrorMessage"
      existing == IF kind = "responses"
                    THEN Described(<<"Not", " ", "Found", ":", " ", "order">>)
                    ELSE Obj(<< <<"type", S1("string")>> >>)
      ok(i) == IF kind = "schemas" /\ i <= copies
                 THEN Put(Described(<<"OK", " ", ToString(i)>>), "content",
                          JsonContent(ErrorSchema(2)))
               ELSE IF kind = "schemas" /\ i = MaxCopies
                 THEN Put(Described(<<"OK", " ", ToString(i)>>), "content",
                          JsonContent(SchemaRef(name)))
               ELSE Described(<<"OK", " ", ToString(i)>>)
      responses(i) ==
        Obj(<< <<"200", ok(i)>> >>
            \o (IF kind = "responses" /\ i <= copies
                  THEN << <<"404", NotFoundResponse(2)>> >>
                ELSE IF kind = "responses" /\ i = MaxCopies
                  THEN << <<"404", ResponseRef(name)>> >>
                ELSE <<>>))
  IN Document(Info,
              Obj([i \in 1..MaxCopies |->
                    <<PathName(i), Obj(<< <<"get", Obj(<< <<"responses", responses(i)>> >>)>> >>)>>]),
              << <<"components", Obj(<< <<kind, Obj(<< <<name, existing>> >>)>> >>)>> >>)

InitExisting ==
  Start({ExistingDocument(kind, copies, taken) :
           kind \in {"responses", "schemas"}, copies \in 2..(MaxCopies - 1),
           taken \in BOOLEAN},
        {PresetOptions("min", FALSE, r, s) : r \in BOOLEAN, s \in BOOLEAN})

\* Property names: a component schema and a body schema whose properties
\* have the names below, each a string schema.
PropertyNames == {"title", "format", "default", "pattern", "summary", "examples", "id"}

PropertyDocument(names) ==
  LET ordered == SelectSeq(<<"id", "title", "format", "default", "pattern", "summary",
                             "examples">>, LAMBDA n : n \in names)
      record == Obj(<< <<"type", S1("object")>>,
                       <<"properties",
                         Obj([i \in 1..Len(ordered) |->
                               <<ordered[i], Obj(<< <<"type", S1("string")>> >>)>>])>> >>)
      ok == Put(Described(<<"OK">>), "content", JsonContent(SchemaRef("User")))
      operation == Obj(<< <<"requestBody", Obj(<< <<"content", JsonContent(record)>> >>)>>,
                          <<"responses", Obj(<< <<"200", ok>> >>)>> >>)
  IN Document(Info,
              Obj(<< <<PathName(1), Obj(<< <<"post", operation>> >>)>> >>),
              << <<"components", Obj(<< <<"schemas", Obj(<< <<"User", record>> >>)>> >>)>> >>)

InitProperties ==
  Start({PropertyDocument(names) : names \in {{"id", n} : n \in PropertyNames} \cup {PropertyNames}},
        {PresetOptions(p, FALSE, FALSE, FALSE) : p \in Presets}
          \cup [keepExamples : BOOLEAN, keepDescriptions : {"all"},
                keepSummaries : BOOLEAN, keepTags : {TRUE}, removeDeprecated : {FALSE},
                extractCommonResponses : {FALSE}, extractCommonSchemas : {FALSE},
                preset : {"unset"}])

\* Shapes: three operations whose body schemas have the properties message
\* and code and, each for itself, one more property of the names below (or
\* none).
ExtraProperties == {"none", "title", "description", "default", "example", "note"}

ShapeSchema(extra) ==
  Obj(<< <<"type", S1("object")>>,
         <<"properties",
           Obj(<< <<"message", Obj(<< <<"type", S1("string")>> >>)>>,
                  <<"code", Obj(<< <<"type", S1("integer")>> >>)>> >>
               \o (IF extra = "none" THEN <<>>
                   ELSE << <<extra, Obj(<< <<"type", S1("string")>> >>)>> >>))>> >>)

ShapeDocument(extras) ==
  LET ok(i) == Put(Described(<<"OK", " ", ToString(i)>>), "content",
                   JsonContent(ShapeSchema(extras[i])))
  IN Document(Info,
              Obj([i \in 1..3 |->
                    <<PathName(i),
                      Obj(<< <<"get", Obj(<< <<"responses", Obj(<< <<"200", ok(i)>> >>)>> >>)>> >>)>>]),
              <<>>)

InitShapes ==
  Start({ShapeDocument(extras) : extras \in [1..3 -> ExtraProperties]},
        {PresetOptions("min", FALSE, FALSE, s) : s \in BOOLEAN})

SpecRefs == InitRefs /\ [][Next]_vars
SpecShapes == InitShapes /\ [][Next]_vars
SpecProperties == InitProperties /\ [][Next]_vars
SpecExisting == InitExisting /\ [][Next]_vars
SpecIndirect == InitIndirect /\ [][Next]_vars
SpecStages == InitStages /\ [][Next]_vars
SpecClosure == InitClosure /\ [][Next]_vars
SpecOrder == InitOrder /\ [][Next]_vars
SpecNormalization == InitNormalization /\ [][Next]_vars
SpecNaming == InitNaming /\ [][Next]_vars
SpecParsing == InitParsing /\ [][Next]_vars
SpecPruning == InitPruning /\ [][Next]_vars
SpecSummaries == InitSummaries /\ [][Next]_vars
SpecInfo == InitInfo /\ [][Next]_vars
SpecExamples == InitExamples /\ [][Next]_vars
SpecDeprecated == InitDeprecated /\ [][Next]_vars
SpecDescriptions == InitDescriptions /\ [][Next]_vars
SpecExtraction == InitExtraction /\ [][Next]_vars
SpecKeywords == InitKeywords /\ [][Next]_vars

-----------------------------------------------------------------------------
(* Properties                                                              *)

Running == pc \notin {"start", "failed"}

\* The <name> of a string "#/components/schemas/<name>", as a set.
SchemaNameOf(value) ==
  IF IsString(value) /\ Len(value.s) = 2 /\ value.s[1] = "#/components/schemas/"
    THEN {value.s[2]} ELSE {}

\* The names every `$ref` inside v refers to.
RECURSIVE SchemaRefsIn(_)
SchemaRefsIn(v) ==
  IF IsArray(v) THEN UNION {SchemaRefsIn(v.a[i]) : i \in 1..Len(v.a)}
  ELSE IF IsObject(v)
    THEN UNION {IF v.e[i][1] = "$ref" THEN SchemaNameOf(v.e[i][2])
                ELSE SchemaRefsIn(v.e[i][2]) : i \in 1..Len(v.e)}
  ELSE {}

KeySet(v) == IF IsObject(v) THEN {v.e[i][1] : i \in 1..Len(v.e)} ELSE {}

SchemaTable(doc) == Field(Field(doc, "components"), "schemas")

Resolves(doc) == SchemaRefsIn(doc) \subseteq KeySet(SchemaTable(doc))

\* C1: whenever every `#/components/schemas/<name>` reference of the input
\* resolves, every such reference in the output, under paths or inside any
\* components table, names a key of the output's components.schemas.
C1_ReferenceIntegrity ==
  (pc = "done" /\ Resolves(content)) => Resolves(minifiedContent)

RootFields == {"openapi", "info", "paths"}

EmptyMapping == Obj(<<>>)

RECURSIVE ResponseObjects(_, _)
ResponseObjects(v, underResponses) ==
  IF IsArray(v) THEN UNION {ResponseObjects(v.a[i], FALSE) : i \in 1..Len(v.a)}
  ELSE IF IsObject(v)
    THEN UNION {(IF underResponses /\ IsObject(v.e[i][2]) THEN {v.e[i][2]} ELSE {})
                \cup ResponseObjects(v.e[i][2], v.e[i][1] = "responses") : i \in 1..Len(v.e)}
  ELSE {}

\* C3: whatever the keepDescriptions mode, every response object under a
\* `responses` mapping of the output has a description that is a non-empty
\* string.
C3_ResponseDescriptionNonEmpty ==
  pc = "done" =>
    \A r \in ResponseObjects(minifiedContent, FALSE) :
      IsString(Get(r, "description")) /\ Get(r, "description").s # <<>>

\* The names reachable from `names` through the references inside the bodies
\* of the schema table.
RECURSIVE Closure(_, _)
Closure(schemas, names) ==
  LET more == names \cup UNION {SchemaRefsIn(Get(schemas, n)) : n \in names \cap KeySet(schemas)}
  IN IF more = names THEN names ELSE Closure(schemas, more)

Reachable(doc) ==
  Closure(SchemaTable(doc),
          SchemaRefsIn(Get(doc, "paths")) \cup SchemaRefsIn(Field(doc, "webhooks"))
            \cup SchemaRefsIn(Field(doc, "callbacks")))

PruneRan ==
  /\ pc = "pruned"
  /\ PrunesComponents(options, removedElements.deprecatedPaths)
  /\ Truthy(SchemaTable(prev))

\* C4: when removeUnusedComponents runs, a name is a key of components.schemas
\* afterwards if and only if it was a key before and is in the transitive
\* closure of the references that start from paths, webhooks and callbacks.
C4_ReachabilityPruning ==
  PruneRan =>
    KeySet(SchemaTable(spec)) = KeySet(SchemaTable(prev)) \cap Reachable(prev)

\* C4 on the tables whose schema bodies are all objects.
C4_ObjectBodies ==
  (PruneRan /\ \A n \in KeySet(SchemaTable(prev)) : IsObject(Get(SchemaTable(prev), n))) =>
    KeySet(SchemaTable(spec)) = KeySet(SchemaTable(prev)) \cap Reachable(prev)

\* The number of places inside v that hold the value x.
RECURSIVE CountValue(_, _)
CountValue(v, x) ==
  IF IsArray(v)
    THEN SumSeq([i \in 1..Len(v.a) |->
                  (IF v.a[i] = x THEN 1 ELSE 0) + CountValue(v.a[i], x)])
  ELSE IF IsObject(v)
    THEN SumSeq([i \in 1..Len(v.e) |->
                  (IF v.e[i][2] = x THEN 1 ELSE 0) + CountValue(v.e[i][2], x)])
  ELSE 0

\* How many of the candidates have the comparison key k.
Occurrences(candidates, Key(_), k) ==
  Cardinality({i \in 1..Len(candidates) : Key(candidates[i]) = k})

\* The names under which a component table holds a value of comparison key k.
EntriesFor(table, Key(_), k) == {n \in KeySet(table) : Key(Get(table, n)) = k}

\* What C5 asks of a pass, given the candidates before and after it, the
\* component table after it, and the reference object of a name.
ThresholdKept(before, after, table, Key(_), Ref(_)) ==
  \A i \in 1..Len(before) :
    LET k == Key(before[i])
        n == Occurrences(before, Key, k)
    IN IF n < 3
         THEN /\ Occurrences(after, Key, k) = n
              /\ EntriesFor(table, Key, k) = {}
         ELSE /\ Occurrences(after, Key, k) = 0
              /\ Cardinality(EntriesFor(table, Key, k)) = 1
              /\ \A name \in EntriesFor(table, Key, k) :
                   CountValue(Get(spec, "paths"), Ref(name)) >= n

ResponsesExtracted == pc = "responses" /\ options.extractCommonResponses
SchemasExtracted == pc = "schemas" /\ options.extractCommonSchemas

\* C5: in both extraction passes a canonical structure with fewer than 3
\* occurrences (so one with exactly 2) stays inline and gets no component
\* entry; one with 3 or more gets exactly one entry of the component table
\* and each of its occurrences becomes a reference to that entry.
C5_DeduplicationThreshold ==
  /\ ResponsesExtracted =>
       ThresholdKept(CollectResponses(prev, NoKey), CollectResponses(spec, NoKey),
                     Field(Field(spec, "components"), "responses"),
                     CreateResponseKey, ResponseRef)
  /\ SchemasExtracted =>
       ThresholdKept(CollectSchemas(prev, <<>>), CollectSchemas(spec, <<>>),
                     SchemaTable(spec), CreateSchemaKey, SchemaRef)

\* Both passes have run on a document with two alike 500 responses, three or
\* more alike 404 responses and three or more alike inline schemas.
C5_Witness ==
  /\ SchemasExtracted /\ options.extractCommonResponses /\ run = 1
  /\ Occurrences(CollectResponses(originalSpec, NoKey), CreateResponseKey,
                 CreateResponseKey(Described(<<"Oops">>))) = 2
  /\ CountValue(spec, Described(<<"Oops">>)) = 2
  /\ removedElements.extractedResponses >= 3
  /\ removedElements.extractedSchemas >= 3
  /\ CountValue(spec, SchemaRef("ErrorMessage")) >= 3

HttpMethods == {"get", "post", "put", "patch", "delete", "head", "options", "trace"}

OperationsOf(pathItem) == {op \in HttpMethods : HasKey(pathItem, op)}

DeprecatedOperationsOf(pathItem) ==
  {op \in OperationsOf(pathItem) : Field(Get(pathItem, op), "deprecated") = Bool(TRUE)}

\* C6: with removeDeprecated, a path item deprecated as a whole is absent
\* from the output, so is one whose operations are all deprecated, one with
\* a mix keeps exactly its operations that are not deprecated, and the count
\* is the number of whole paths removed.
C6_DeprecatedPaths ==
  (pc = "done" /\ options.removeDeprecated) =>
    LET before == Get(originalSpec, "paths")
        after == Get(minifiedContent, "paths")
    IN /\ \A p \in KeySet(before) :
            LET item == Get(before, p)
                all == OperationsOf(item)
                gone == DeprecatedOperationsOf(item)
            IN /\ Get(item, "deprecated") = Bool(TRUE) => p \notin KeySet(after)
               /\ (all # {} /\ gone = all) => p \notin KeySet(after)
               /\ (Get(item, "deprecated") # Bool(TRUE) /\ gone # {} /\ gone # all) =>
                    p \in KeySet(after) /\ OperationsOf(Get(after, p)) = all \ gone
       /\ removedElements.deprecatedPaths = Cardinality(KeySet(before) \ KeySet(after))

\* A call that removed one whole path and one operation of the other path.
C6_Witness ==
  /\ pc = "done" /\ options.removeDeprecated /\ run = 1
  /\ removedElements.deprecatedPaths = 1
  /\ \E p \in KeySet(Get(originalSpec, "paths")) :
       /\ DeprecatedOperationsOf(Get(Get(originalSpec, "paths"), p)) = {"get", "delete"}
       /\ OperationsOf(Get(Get(minifiedContent, "paths"), p)) = {"put"}

\* C7: minifying the output of a call again, with the same options, returns
\* a document equal to its input.
C7_Idempotence ==
  (pc = "done" /\ run = 2) => minifiedContent = content

IsReference(v, prefix) ==
  /\ IsObject(v) /\ Keys(v) = <<"$ref">>
  /\ IsString(v.e[1][2]) /\ Len(v.e[1][2].s) = 2 /\ v.e[1][2].s[1] = prefix

\* The number of places where `after` holds a reference object of the given
\* prefix that `before` does not hold there.
RECURSIVE Rewritten(_, _, _)
Rewritten(before, after, prefix) ==
  IF IsReference(after, prefix) THEN (IF before = after THEN 0 ELSE 1)
  ELSE IF IsArray(after)
    THEN SumSeq([i \in 1..Len(after.a) |->
                  Rewritten(IF IsArray(before) /\ i <= Len(before.a) THEN before.a[i] ELSE Undef,
                            after.a[i], prefix)])
  ELSE IF IsObject(after)
    THEN SumSeq([i \in 1..Len(after.e) |->
                  Rewritten(Field(before, after.e[i][1]), after.e[i][2], prefix)])
  ELSE 0

\* The sizes of the groups of alike candidates that reach the threshold.
QualifyingGroups(candidates, Key(_)) ==
  LET keys == {Key(candidates[i]) : i \in 1..Len(candidates)}
  IN {k \in keys : Occurrences(candidates, Key, k) >= 3}

\* C8: the count an extraction pass returns is the number of inline
\* occurrences it rewrote to reference objects; when N >= 3 alike responses
\* under one status key are all that qualifies, there is exactly one entry
\* in components.responses, N references to it, and the count is N.
C8_ExtractionCount ==
  /\ ResponsesExtracted =>
       LET candidates == CollectResponses(prev, NoKey)
           groups == QualifyingGroups(candidates, CreateResponseKey)
           table == Field(Field(spec, "components"), "responses")
       IN /\ removedElements.extractedResponses
               = Rewritten(prev, spec, "#/components/responses/")
          /\ (Cardinality(groups) = 1 /\ Field(prev, "components") = Undef) =>
               \A k \in groups :
                 /\ Cardinality(KeySet(table)) = 1
                 /\ \A name \in KeySet(table) :
                      CountValue(Get(spec, "paths"), ResponseRef(name))
                        = Occurrences(candidates, CreateResponseKey, k)
                 /\ removedElements.extractedResponses
                      = Occurrences(candidates, CreateResponseKey, k)
  /\ SchemasExtracted =>
       removedElements.extractedSchemas
         = Rewritten(prev, spec, "#/components/schemas/")

\* MaxCopies alike 404 responses were all that qualified: one NotFound entry
\* and a count of MaxCopies.
C8_Witness ==
  /\ ResponsesExtracted /\ run = 1
  /\ removedElements.extractedResponses = MaxCopies
  /\ KeySet(Field(Field(spec, "components"), "responses")) = {"NotFound"}
  /\ CountValue(Get(spec, "paths"), ResponseRef("NotFound")) = MaxCopies
  /\ CountValue(Get(prev, "paths"), NotFoundResponse(2)) = MaxCopies - 1

Email(doc) ==
  Get(Get(Get(SchemaTable(doc), "User"), "properties"), "email")

ParameterSchema(doc) ==
  Get(Get(Get(Get(Get(doc, "paths"), PathName(1)), "get"), "parameters").a[1], "schema")

\* What C9 asks of one schema, given what it was: `removed` are the
\* keywords the preset takes away.
KeywordsLeft(before, after, removed) ==
  Keys(after) = SelectSeq(Keys(before), LAMBDA k : k \notin removed)

\* C9, as the program has it: a schema that carries format and pattern loses
\* both under preset max and under preset balanced (which keeps minLength,
\* that max removes too), and keeps both under preset min or without preset.
C9_PresetSchemaCleanup ==
  (pc = "done" /\ run = 1) =>
    LET removed == CASE options.preset = "max" -> {"format", "pattern", "minLength"}
                     [] options.preset = "balanced" -> {"format", "pattern"}
                     [] OTHER -> {}
    IN /\ KeywordsLeft(Email(originalSpec), Email(minifiedContent), removed)
       /\ KeywordsLeft(ParameterSchema(originalSpec), ParameterSchema(minifiedContent),
                       removed)

\* Preset balanced met a property with format, pattern and minLength and
\* left `type` and `minLength`.
C9_Witness ==
  /\ pc = "done" /\ run = 1 /\ options.preset = "balanced"
  /\ Keys(Email(originalSpec)) = <<"type", "format", "pattern", "minLength">>
  /\ Keys(Email(minifiedContent)) = <<"type", "minLength">>

\* C9 as stated: max removes format and pattern, balanced removes format and
\* keeps pattern, min keeps both.
C9_BalancedKeepsPattern ==
  (pc = "done" /\ run = 1) =>
    LET removed == CASE options.preset = "max" -> {"format", "pattern"}
                     [] options.preset = "balanced" -> {"format"}
                     [] OTHER -> {}
        left(before, after) ==
          \A k \in {"format", "pattern"} :
            HasKey(after, k) <=> (HasKey(before, k) /\ k \notin removed)
    IN /\ left(Email(originalSpec), Email(minifiedContent))
       /\ left(ParameterSchema(originalSpec), ParameterSchema(minifiedContent))

\* The paths of the string-valued `description` keys inside v.
RECURSIVE DescriptionPaths(_, _)
DescriptionPaths(v, path) ==
  IF IsArray(v)
    THEN UNION {DescriptionPaths(v.a[i], Append(path, IndexKey(i))) : i \in 1..Len(v.a)}
  ELSE IF IsObject(v)
    THEN UNION {(IF v.e[i][1] = "description" /\ IsString(v.e[i][2])
                   THEN {Append(path, "description")} ELSE {})
                \cup DescriptionPaths(v.e[i][2], Append(path, v.e[i][1])) : i \in 1..Len(v.e)}
  ELSE {}

\* C10: with keepDescriptions = none, no string-valued description is left
\* in the output outside a path through `responses` or `tags`: not on
\* operations, parameter objects, servers or info.
C10_NoDescriptionsLeft ==
  (pc = "done" /\ options.keepDescriptions = "none") =>
    \A path \in DescriptionPaths(minifiedContent, <<>>) :
      Contains(path, "responses") \/ Contains(path, "tags")

\* C11: with keepDescriptions = schema-only, every string-valued description
\* left in the output lies on a path through `responses` or `tags` (the
\* required contexts) or through `schemas` or `properties`: those of
\* operations, parameter objects, server entries and info are deleted.
C11_SchemaOnlyDescriptions ==
  (pc = "done" /\ options.keepDescriptions = "schema-only") =>
    \A path \in DescriptionPaths(minifiedContent, <<>>) :
      \/ Contains(path, "responses") \/ Contains(path, "tags")
      \/ Contains(path, "schemas") \/ Contains(path, "properties")

\* The media-type entries (the values of a `content` mapping) and the
\* parameter objects (the items of a `parameters` array) inside v.
RECURSIVE ExampleCarriers(_, _)
ExampleCarriers(v, last) ==
  IF IsArray(v)
    THEN UNION {(IF last = "parameters" /\ IsObject(v.a[i]) THEN {v.a[i]} ELSE {})
                \cup ExampleCarriers(v.a[i], IndexKey(i)) : i \in 1..Len(v.a)}
  ELSE IF IsObject(v)
    THEN UNION {(IF last = "content" /\ IsObject(v.e[i][2]) THEN {v.e[i][2]} ELSE {})
                \cup ExampleCarriers(v.e[i][2], v.e[i][1]) : i \in 1..Len(v.e)}
  ELSE {}

\* C12: with keepExamples = false no media-type entry of a request body or
\* of a response and no parameter object of the output has an `example` or
\* an `examples` key; with keepExamples = true field reduction leaves every
\* `example` and `examples` key in place.
C12_ExampleRemoval ==
  /\ (pc = "done" /\ ~options.keepExamples) =>
       \A c \in ExampleCarriers(minifiedContent, NoKey) :
         ~HasKey(c, "example") /\ ~HasKey(c, "examples")
  /\ (pc = "minified" /\ options.keepExamples) =>
       \A k \in {"example", "examples"} : CountNestedKey(spec, k) = CountNestedKey(prev, k)

InfoFields == {"title", "version", "description", "contact", "license", "termsOfService"}

\* C13: after field reduction info has no key outside title, version,
\* description, contact, license and termsOfService, whether or not it has
\* an object-valued child; contact has only name, url and email, license
\* only name and url; title and version are kept as they were.
C13_InfoRewrite ==
  pc = "minified" =>
    LET before == Get(prev, "info")
        info == Get(spec, "info")
    IN /\ KeySet(info) \subseteq InfoFields
       /\ KeySet(Get(info, "contact")) \subseteq {"name", "url", "email"}
       /\ KeySet(Get(info, "license")) \subseteq {"name", "url"}
       /\ \A f \in {"title", "version"} :
            HasKey(before, f) => HasKey(info, f) /\ Get(info, f) = Get(before, f)

User(doc) == Get(SchemaTable(doc), "User")

\* C14: under preset max field reduction deletes the validation keywords of
\* a schema, and deletes `additionalProperties` unless its value is the
\* boolean true, which it keeps.
C14_AdditionalProperties ==
  (pc = "minified" /\ options.preset = "max") =>
    /\ \A k \in {"format", "pattern", "minLength"} : ~HasKey(Email(spec), k)
    /\ HasKey(User(spec), "additionalProperties")
         <=> Get(User(prev), "additionalProperties") = Bool(TRUE)
    /\ HasKey(User(spec), "additionalProperties") =>
         Get(User(spec), "additionalProperties") = Bool(TRUE)

OperationTags(doc) ==
  Get(Get(Get(Get(doc, "paths"), PathName(1)), "get"), "tags")

\* C15: with keepTags = false every object of the root `tags` array that has
\* a name is, in the output, an object whose only key is that name, and the
\* `tags` array of an operation (an array of strings) is unchanged item by
\* item; with keepTags = true the root tag objects keep their description
\* (in its normalized form) next to their name.
C15_TagRule ==
  (pc = "done" /\ run = 1) =>
    LET before == Get(originalSpec, "tags").a
        after == Get(minifiedContent, "tags").a
    IN /\ Len(after) = Len(before)
       /\ \A i \in 1..Len(before) :
            (IsObject(before[i]) /\ HasKey(before[i], "name")) =>
              IF ~options.keepTags
                THEN after[i] = Obj(<< <<"name", Get(before[i], "name")>> >>)
                ELSE /\ Get(after[i], "name") = Get(before[i], "name")
                     /\ Get(after[i], "description")
                          = MinifyDescriptionText(Get(before[i], "description"))
       /\ OperationTags(minifiedContent) = OperationTags(originalSpec)

\* A call with keepTags = false, in a mode that deletes descriptions, on a
\* document whose root tag has a description and whose operation is tagged.
C15_Witness ==
  /\ pc = "done" /\ run = 1 /\ ~options.keepTags /\ options.keepDescriptions = "none"
  /\ HasKey(Get(originalSpec, "tags").a[1], "description")
  /\ Get(minifiedContent, "tags") = Arr(<<Obj(<< <<"name", S1("t")>> >>)>>)
  /\ OperationTags(minifiedContent) = Arr(<<S1("t")>>)

\* The paths of the string-valued `summary` keys inside v.
RECURSIVE SummaryPaths(_, _)
SummaryPaths(v, path) ==
  IF IsArray(v)
    THEN UNION {SummaryPaths(v.a[i], Append(path, IndexKey(i))) : i \in 1..Len(v.a)}
  ELSE IF IsObject(v)
    THEN UNION {(IF v.e[i][1] = "summary" /\ IsString(v.e[i][2])
                   THEN {Append(path, "summary")} ELSE {})
                \cup SummaryPaths(v.e[i][2], Append(path, v.e[i][1])) : i \in 1..Len(v.e)}
  ELSE {}

\* C16: with keepSummaries = false the output has no string-valued `summary`
\* key at any depth; with keepSummaries = true field reduction deletes no
\* `summary` key.
C16_SummaryRule ==
  /\ (pc = "done" /\ ~options.keepSummaries) => SummaryPaths(minifiedContent, <<>>) = {}
  /\ (pc = "minified" /\ options.keepSummaries) =>
       SummaryPaths(spec, <<>>) = SummaryPaths(prev, <<>>)

\* The paths of the input that the call has removed.
RemovedWholePaths == KeySet(Get(originalSpec, "paths")) \ KeySet(Get(spec, "paths"))

\* C17: removeUnusedComponents runs if and only if the preset is max or
\* balanced or the deprecated pass removed at least one whole path (seen
\* here by the schema nothing refers to, which only pruning takes away); when
\* it does not run, every entry components.schemas has after field reduction
\* is in the output.  Stated of the first call, whose input has that schema.
C17_PruningTrigger ==
  LET trigger == options.preset \in {"max", "balanced"} \/ RemovedWholePaths # {}
  IN /\ (pc = "pruned" /\ run = 1) =>
          /\ "Unused" \in KeySet(SchemaTable(prev))
          /\ "Unused" \notin KeySet(SchemaTable(spec)) <=> trigger
          /\ ~trigger => spec = prev
     /\ (pc = "done" /\ run = 1) =>
          /\ "Unused" \notin KeySet(SchemaTable(minifiedContent)) <=> trigger
          /\ ~trigger => SchemaTable(minifiedContent) = SchemaTable(spec)

\* Preset min removed one whole path of two and pruned the schemas.
C17_Witness ==
  /\ pc = "done" /\ run = 1 /\ options.preset = "min" /\ options.removeDeprecated
  /\ RemovedWholePaths = {PathName(1)}
  /\ KeySet(SchemaTable(originalSpec)) = {"S1", "S2", "Old", "Unused"}
  /\ KeySet(SchemaTable(minifiedContent)) = {"S2"}

\* The deprecated pass took something away: a path, or an operation of a
\* path that is still there.
DeadBranchesPruned ==
  \E p \in KeySet(Get(originalSpec, "paths")) :
    \/ p \notin KeySet(Get(spec, "paths"))
    \/ OperationsOf(Get(Get(spec, "paths"), p)) # OperationsOf(Get(Get(originalSpec, "paths"), p))

\* The schemas that only the pruned branches referred to.
OrphanedSchemas ==
  SchemaRefsIn(Get(originalSpec, "paths")) \ SchemaRefsIn(Get(spec, "paths"))

MinRemovingDeprecated ==
  pc = "done" /\ run = 1 /\ options.preset = "min" /\ options.removeDeprecated

\* C18, as the program has it: under preset min with removeDeprecated, when
\* the deprecated pass removes at least one whole path, pruning runs and no
\* schema that only the pruned branches referred to is in the output; when
\* it removes nothing but individual operations of paths that stay, pruning
\* does not run and components.schemas is as it was.
C18_PruningAfterWholePaths ==
  MinRemovingDeprecated =>
    IF RemovedWholePaths # {}
      THEN OrphanedSchemas \cap KeySet(SchemaTable(minifiedContent)) = {}
      ELSE SchemaTable(minifiedContent) = SchemaTable(originalSpec)

\* A path whose operations were all deprecated is gone and so is its schema;
\* the other path and its schema are there.
C18_Witness ==
  /\ MinRemovingDeprecated
  /\ Get(Get(originalSpec, "paths"), PathName(1)) = PruningPathItem("all deprecated", "S1")
  /\ KeySet(Get(minifiedContent, "paths")) = {PathName(2)}
  /\ OrphanedSchemas = {"S1"}
  /\ KeySet(SchemaTable(minifiedContent)) = {"S2"}

\* C18 as stated: whenever the deprecated pass prunes a whole path or only
\* individual operations of a path that stays, pruning runs and no schema
\* that only the pruned branches referred to is in the output.
C18_PruningAfterDeadBranches ==
  (MinRemovingDeprecated /\ DeadBranchesPruned) =>
    OrphanedSchemas \cap KeySet(SchemaTable(minifiedContent)) = {}

\* The root fields an input lacks.
Lacking(text) == {f \in RootFields : ~IsObject(text) \/ ~HasKey(text, f)}

\* The input of the call does not parse, does not denote an object, or
\* lacks a root field.
FatalInput == content = Malformed \/ ~IsObject(content) \/ Lacking(content) # {}

MissingField(f) == "Missing \"" \o f \o "\" field"

\* C19: on an input that does not parse, that is not an object or that lacks
\* openapi, info or paths, minifyOpenAPI throws an error whose message is the
\* parse-stage prefix followed by the root cause; no pass runs and there is
\* no document, no statistics and no output.
C19_FatalInputErrors ==
  (FatalInput /\ pc # "start") =>
    /\ pc = "failed"
    /\ error # NoError
    /\ error[1] = "Failed to parse OpenAPI specification: "
    /\ error[2] \in
         IF content = Malformed THEN {SyntaxErrorMessage}
         ELSE IF IsArray(content) \/ IsObject(content)
           THEN {MissingField(f) : f \in Lacking(content)}
         ELSE {"Invalid OpenAPI specification: not an object"}
    /\ originalSpec = Undef /\ spec = Undef /\ prev = Undef
    /\ removedElements = NoRemovals
    /\ minifiedContent = Undef

\* The call on a document without `paths` has failed with that cause.
C19_Witness ==
  /\ pc = "failed"
  /\ IsObject(content) /\ Lacking(content) = {"paths"}
  /\ error = <<"Failed to parse OpenAPI specification: ", "Missing \"paths\" field">>
  /\ minifiedContent = Undef

\* The refNames of a sequence of qualifying groups are pairwise distinct.
DistinctNames(common) ==
  \A i, j \in 1..Len(common) : i # j => common[i].refName # common[j].refName

\* C20: within one extraction run the names generated for the qualifying
\* groups are pairwise distinct, content-derived and fallback names mixed:
\* on a document without components each group ends as an entry of its own
\* in the component table.
C20_NameUniqueness ==
  /\ ResponsesExtracted =>
       /\ DistinctNames(CommonResponses(prev))
       /\ Field(prev, "components") = Undef =>
            Cardinality(KeySet(Field(Field(spec, "components"), "responses")))
              = Cardinality(QualifyingGroups(CollectResponses(prev, NoKey), CreateResponseKey))
  /\ SchemasExtracted =>
       /\ DistinctNames(CommonSchemas(prev))
       /\ Field(Field(prev, "components"), "schemas") = Undef =>
            Cardinality(KeySet(SchemaTable(spec)))
              = Cardinality(QualifyingGroups(CollectSchemas(prev, <<>>), CreateSchemaKey))

\* MaxGroups groups of responses were extracted: the first under the name
\* derived from its description, the last under the first name of the
\* fallback pool taken a second time.
C20_Witness ==
  /\ ResponsesExtracted /\ run = 1
  /\ Len(CommonResponses(prev)) = MaxGroups
  /\ CommonResponses(prev)[1].refName = "NotFound"
  /\ CommonResponses(prev)[2].refName = "NotFound2"
  /\ CommonResponses(prev)[3].refName = "ValidationError1"
  /\ CommonResponses(prev)[MaxGroups].refName = "CommonError2"
  /\ Cardinality(KeySet(Field(Field(spec, "components"), "responses"))) = MaxGroups

\* The value at a path of keys and of array indices (written as the walk
\* writes them), undefined when the path leaves the tree.
RECURSIVE ValueAt(_, _)
ValueAt(v, path) ==
  IF path = <<>> THEN v
  ELSE IF IsObject(v) THEN ValueAt(Get(v, Head(path)), Tail(path))
  ELSE IF IsArray(v) /\ \E i \in 1..Len(v.a) : IndexKey(i) = Head(path)
    THEN ValueAt(v.a[CHOOSE i \in 1..Len(v.a) : IndexKey(i) = Head(path)], Tail(path))
  ELSE Undef

\* Where each description holder of the normalization documents keeps its text.
HolderPath(holder) ==
  CASE holder = "info" -> <<"info", "description">>
    [] holder = "operation" -> <<"paths", PathName(1), "get", "description">>
    [] holder = "parameter" ->
         <<"paths", PathName(1), "get", "parameters", "0", "description">>
    [] holder = "response" ->
         <<"paths", PathName(1), "get", "responses", "200", "description">>
    [] holder = "schema" ->
         <<"paths", PathName(1), "get", "responses", "200", "content",
           "application/json", "schema", "description">>
    [] holder = "server" -> <<"servers", "0", "description">>
    [] holder = "tag" -> <<"tags", "0", "description">>

\* The tokens of bold, italic, code, link, heading, list and HTML markup.
MarkupTokens == {"*", Backquote, "[", "]", "(", ")", "<", ">", "#", "-", "."}

\* Plain text: no markup token, single spaces only, none at either end.
PlainText(s) ==
  /\ \A i \in 1..Len(s) : s[i] \notin MarkupTokens /\ s[i] \notin {"\n", "\t"}
  /\ \A i \in 1..(Len(s) - 1) : ~(s[i] = " " /\ s[i + 1] = " ")
  /\ s # <<>> => (s[1] # " " /\ s[Len(s)] # " ")

\* C21: every description kept in the output is normalized: its bold, link,
\* code, heading, list and HTML markup is flattened to plain text, its
\* whitespace runs are single spaces and its ends are trimmed; the text
\* `**Bold** and [a link](http://x)` is kept as `Bold and a link`.
C21_KeptDescriptionsNormalized ==
  (pc = "done" /\ run = 1) =>
    \A holder \in DescriptionHolders :
      LET before == ValueAt(originalSpec, HolderPath(holder))
          after == ValueAt(minifiedContent, HolderPath(holder))
      IN IsString(after) =>
           /\ PlainText(after.s)
           /\ (before = Str(BoldAndLink) /\ options.keepDescriptions = "all") =>
                after = Str(<<"Bold", " ", "and", " ", "a", " ", "link">>)

\* C21, outside the items of a `parameters` array: the same statement for
\* the descriptions of info, operations, responses, schemas, servers and tags.
C21_NormalizedOutsideParameters ==
  (pc = "done" /\ run = 1) =>
    \A holder \in DescriptionHolders \ {"parameter"} :
      LET before == ValueAt(originalSpec, HolderPath(holder))
          after == ValueAt(minifiedContent, HolderPath(holder))
      IN IsString(after) =>
           /\ PlainText(after.s)
           /\ (before = Str(BoldAndLink) /\ options.keepDescriptions = "all") =>
                after = Str(<<"Bold", " ", "and", " ", "a", " ", "link">>)

\* An operation description that held the scenario text is kept, normalized.
C21_Witness ==
  /\ pc = "done" /\ run = 1 /\ options.keepDescriptions = "all"
  /\ ValueAt(originalSpec, HolderPath("operation")) = Str(BoldAndLink)
  /\ ValueAt(minifiedContent, HolderPath("operation"))
       = Str(<<"Bold", " ", "and", " ", "a", " ", "link">>)

\* A value without the order of its keys: a mapping as the set of its entries.
RECURSIVE Unordered(_)
Unordered(v) ==
  IF IsArray(v) THEN Arr([i \in 1..Len(v.a) |-> Unordered(v.a[i])])
  ELSE IF IsObject(v)
    THEN [t |-> "o", e |-> {<<v.e[i][1], Unordered(v.e[i][2])>> : i \in 1..Len(v.e)}]
  ELSE v

\* Every two members of the candidates that differ in key order only have
\* the same key.
SameKeyWhateverOrder(cands, Key(_)) ==
  \A i, j \in 1..Len(cands) :
    Unordered(cands[i]) = Unordered(cands[j]) => Key(cands[i]) = Key(cands[j])

\* C22: two candidate responses, or two candidate schemas, with the same
\* keys and the same values that list the keys of a mapping in a different
\* order receive the same comparison key, and so fall in the same group.
C22_KeyOrderIndependent ==
  /\ (pc = "responses" /\ options.extractCommonResponses) =>
       SameKeyWhateverOrder(CollectResponses(prev, NoKey), CreateResponseKey)
  /\ (pc = "schemas" /\ options.extractCommonSchemas) =>
       SameKeyWhateverOrder(CollectSchemas(prev, <<>>), CreateSchemaKey)

\* C22, for responses alone.
C22_ResponseKeyOrderIndependent ==
  (pc = "responses" /\ options.extractCommonResponses) =>
    SameKeyWhateverOrder(CollectResponses(prev, NoKey), CreateResponseKey)

\* C22, for schemas alone.
C22_SchemaKeyOrderIndependent ==
  (pc = "schemas" /\ options.extractCommonSchemas) =>
    SameKeyWhateverOrder(CollectSchemas(prev, <<>>), CreateSchemaKey)

\* The schema table has a schema that refers to itself and two that refer
\* to each other, all of them reachable from paths.
HasCycles(doc) ==
  LET table == SchemaTable(doc)
      refs(n) == SchemaRefsIn(Get(table, n))
  IN /\ \E n \in KeySet(table) \cap Reachable(doc) : n \in refs(n)
     /\ \E n, m \in KeySet(table) \cap Reachable(doc) :
          n # m /\ m \in refs(n) /\ n \in refs(m)

\* The names referred to, from paths or from a reachable schema, that the
\* table lacks.
DanglingNames(doc) == Reachable(doc) \ KeySet(SchemaTable(doc))

\* C23: removeUnusedComponents returns on every document, the tables with a
\* self-referential schema and with mutually referential schemas included:
\* the call leaves the table of the reachable schemas; a reference to a name
\* the table lacks adds no entry to it and raises no error.
C23_ClosureTerminates ==
  PruneRan =>
    /\ KeySet(SchemaTable(spec)) = KeySet(SchemaTable(prev)) \cap Reachable(prev)
    /\ \A n \in KeySet(SchemaTable(spec)) :
         HasKey(SchemaTable(prev), n) /\ Get(SchemaTable(spec), n) = Get(SchemaTable(prev), n)
    /\ KeySet(SchemaTable(spec)) \cap DanglingNames(prev) = {}
    /\ error = NoError

\* Pruning has returned on a table with a self-reference, a cycle of two
\* schemas and a dangling reference, all reached from paths.
C23_Witness ==
  /\ PruneRan /\ run = 1
  /\ HasCycles(prev)
  /\ DanglingNames(prev) # {}
  /\ KeySet(SchemaTable(spec)) = KeySet(SchemaTable(prev))

\* The stages of one call, in the order of the program text.
StageOrder ==
  <<"start", "parsed", "deprecated", "responses", "schemas", "minified",
    "pruned", "restored", "done">>

\* The output of the stages applied one after the other, each to the whole
\* result of the one before, a disabled stage being left out.
InOrder(original, opts) ==
  LET cloned == DeepClone(original)
      removed == IF opts.removeDeprecated THEN RemoveDeprecatedPaths(cloned)
                 ELSE [spec |-> cloned, count |-> 0]
      hoisted == IF opts.extractCommonResponses
                   THEN ExtractCommonResponses(removed.spec).spec ELSE removed.spec
      shared == IF opts.extractCommonSchemas
                  THEN ExtractCommonSchemas(hoisted).spec ELSE hoisted
      reduced == MinifyObject(shared, <<>>, opts)
      pruned == IF PrunesComponents(opts, removed.count)
                  THEN RemoveUnusedComponents(reduced) ELSE reduced
  IN SerializeOpenAPI(EnsureEssential(pruned, original))

\* One step of a call: to the next stage of StageOrder, or from the first
\* stage to failure; a disabled stage leaves the document as it is.
OrderedStep ==
  /\ pc # "done" =>
       \/ \E i \in 1..(Len(StageOrder) - 1) : pc = StageOrder[i] /\ pc' = StageOrder[i + 1]
       \/ pc = "start" /\ pc' = "failed"
  /\ (pc = "parsed" /\ ~options.removeDeprecated) => spec' = spec
  /\ (pc = "deprecated" /\ ~options.extractCommonResponses) => spec' = spec
  /\ (pc = "responses" /\ ~options.extractCommonSchemas) => spec' = spec
  /\ (pc = "minified" /\ ~PrunesComponents(options, removedElements.deprecatedPaths)) =>
       spec' = spec

\* C24: in every call the stages run in the order deprecated-branch removal,
\* response extraction, schema extraction, field reduction, dead-component
\* pruning, root-field restoration, serialization; each works on the whole
\* result of the stage before it, and a disabled stage is skipped without
\* changing the order of the others.
C24_PassOrdering ==
  /\ [](pc = "done" => minifiedContent = InOrder(originalSpec, options))
  /\ [][OrderedStep]_vars

\* A call in which every stage was enabled and changed the document.
C24_Witness ==
  /\ pc = "done" /\ run = 1
  /\ removedElements.deprecatedPaths > 0
  /\ removedElements.extractedResponses > 0
  /\ removedElements.extractedSchemas > 0
  /\ removedElements.descriptions > 0
  /\ "Unused" \in KeySet(SchemaTable(originalSpec))
  /\ "Unused" \notin KeySet(SchemaTable(minifiedContent))
  /\ KeySet(SchemaTable(minifiedContent)) # {}

\* The names the `$ref` strings "#/components/<table>/<name>" inside v name.
RECURSIVE ComponentRefsIn(_, _)
ComponentRefsIn(v, table) ==
  IF IsArray(v) THEN UNION {ComponentRefsIn(v.a[i], table) : i \in 1..Len(v.a)}
  ELSE IF IsObject(v)
    THEN UNION {IF v.e[i][1] = "$ref"
                  THEN IF IsString(v.e[i][2]) /\ Len(v.e[i][2].s) = 2
                          /\ v.e[i][2].s[1] = "#/components/" \o table \o "/"
                         THEN {v.e[i][2].s[2]} ELSE {}
                  ELSE ComponentRefsIn(v.e[i][2], table) : i \in 1..Len(v.e)}
  ELSE {}

\* The schemas a document's operations reach through the entries of the
\* component table they refer to.
ReachedThrough(doc, table) ==
  LET entries == Field(Field(doc, "components"), table)
      used == ComponentRefsIn(Get(doc, "paths"), table) \cap KeySet(entries)
  IN Closure(SchemaTable(doc), UNION {SchemaRefsIn(Get(entries, n)) : n \in used})
       \cap KeySet(SchemaTable(doc))

\* C25: when dead-component pruning runs, a component schema referenced,
\* directly or transitively, from an entry of components.responses,
\* components.parameters or components.requestBodies that an operation under
\* paths refers to (a response hoisted in the same call included) is still
\* in components.schemas afterwards.
C25_IndirectReferencesKept ==
  PruneRan =>
    \A table \in {"responses", "parameters", "requestBodies"} :
      ReachedThrough(prev, table) \subseteq KeySet(SchemaTable(spec))

\* C25, for the schemas the operations refer to themselves.
C25_DirectReferencesKept ==
  PruneRan =>
    (Reachable(prev) \cap KeySet(SchemaTable(prev))) \subseteq KeySet(SchemaTable(spec))

\* Pruning never deletes a schema that a response hoisted in the same call
\* refers to.
C25_HoistedReferencesKept ==
  (PruneRan /\ run = 1 /\ removedElements.extractedResponses > 0) =>
    ReachedThrough(prev, "responses") \subseteq KeySet(SchemaTable(spec))

ComponentTable(doc, table) == Field(Field(doc, "components"), table)

\* Every entry the table had before a stage is in it afterwards, unchanged.
EntriesKept(before, after, table) ==
  \A n \in KeySet(ComponentTable(before, table)) :
    /\ n \in KeySet(ComponentTable(after, table))
    /\ Get(ComponentTable(after, table), n) = Get(ComponentTable(before, table), n)

\* C26: extractCommonResponses and extractCommonSchemas store every
\* definition they hoist under a name that was not a key of
\* components.responses / components.schemas before, so every entry that
\* was there keeps its content and every reference to it keeps its target.
C26_ExistingComponentsKept ==
  /\ (pc = "responses" /\ options.extractCommonResponses) =>
       EntriesKept(prev, spec, "responses")
  /\ (pc = "schemas" /\ options.extractCommonSchemas) =>
       EntriesKept(prev, spec, "schemas")

\* C26, for responses alone.
C26_ExistingResponsesKept ==
  (pc = "responses" /\ options.extractCommonResponses) => EntriesKept(prev, spec, "responses")

\* C26, for schemas alone.
C26_ExistingSchemasKept ==
  (pc = "schemas" /\ options.extractCommonSchemas) => EntriesKept(prev, spec, "schemas")

\* C26, when no existing component has the name generated for a group.
C26_OtherNamesKept ==
  /\ (pc = "responses" /\ options.extractCommonResponses
        /\ "NotFound" \notin KeySet(ComponentTable(prev, "responses"))) =>
       EntriesKept(prev, spec, "responses")
  /\ (pc = "schemas" /\ options.extractCommonSchemas
        /\ "ErrorMessage" \notin KeySet(ComponentTable(prev, "schemas"))) =>
       EntriesKept(prev, spec, "schemas")

\* The body schema of the first path's post operation.
BodySchema(doc) ==
  ValueAt(doc, <<"paths", PathName(1), "post", "requestBody", "content",
                 "application/json", "schema">>)

\* The names field reduction has removed from the properties of a schema.
PropertiesLost(before, after) ==
  KeySet(Field(before, "properties")) \ KeySet(Field(after, "properties"))

\* C27: whatever the preset and the options, field reduction removes no
\* entry of the `properties` mapping of a schema: a property named like a
\* schema keyword or a stripped key (title, format, default, pattern,
\* summary, examples) is still under `properties` afterwards.
C27_PropertyNamesKept ==
  pc = "minified" =>
    /\ PropertiesLost(User(prev), User(spec)) = {}
    /\ PropertiesLost(BodySchema(prev), BodySchema(spec)) = {}

\* C27 under preset min, or without a preset when summaries and examples are
\* kept.
C27_KeptWithoutRemovals ==
  (pc = "minified" /\ options.preset \in {"min", "unset"}
     /\ options.keepSummaries /\ options.keepExamples) =>
    /\ PropertiesLost(User(prev), User(spec)) = {}
    /\ PropertiesLost(BodySchema(prev), BodySchema(spec)) = {}

\* The shape of a schema: its type, required and enum and, at every level,
\* the names of its properties with their shapes.
RECURSIVE Shape(_)
Shape(schema) ==
  IF ~IsObject(schema) THEN schema
  ELSE [type |-> Get(schema, "type"),
        required |-> Get(schema, "required"),
        enum |-> Get(schema, "enum"),
        properties |-> IF IsObject(Get(schema, "properties"))
                         THEN {<<p[1], Shape(p[2])>> :
                                 p \in {Get(schema, "properties").e[i] :
                                          i \in 1..Len(Get(schema, "properties").e)}}
                         ELSE {}]

\* The body schema of the i-th path's get operation.
AnswerSchema(doc, i) ==
  ValueAt(doc, <<"paths", PathName(i), "get", "responses", "200", "content",
                 "application/json", "schema">>)

\* C28: every inline schema that extractCommonSchemas replaces by a
\* reference has the shape of the representative stored in
\* components.schemas under the name referred to: the same property names
\* at every level, the same type, required and enum; schemas that differ in
\* a property name, be it title, description, default or example, are not
\* merged.
C28_ShapePreserved ==
  (pc = "schemas" /\ options.extractCommonSchemas) =>
    \A i \in 1..3 :
      \A n \in SchemaRefsIn(AnswerSchema(spec, i)) \ SchemaRefsIn(AnswerSchema(prev, i)) :
        /\ n \in KeySet(SchemaTable(spec))
        /\ Shape(Get(SchemaTable(spec), n)) = Shape(AnswerSchema(prev, i))

\* C28, for schemas that differ in a property whose name the comparison key
\* keeps.
C28_OtherNamesNotMerged ==
  (pc = "schemas" /\ options.extractCommonSchemas) =>
    \A i, j \in 1..3 :
      (/\ AnswerSchema(spec, i) = AnswerSchema(spec, j)
       /\ SchemaRefsIn(AnswerSchema(spec, i)) # {}
       /\ "note" \in KeySet(Get(AnswerSchema(prev, i), "properties"))) =>
        "note" \in KeySet(Get(AnswerSchema(prev, j), "properties"))

\* C29: extractCommonResponses leaves every response entry that is a
\* reference object as it is, however often the same reference occurs: it
\* rewrites none of them and hoists no reference object into
\* components.responses.
C29_ReferenceResponsesUntouched ==
  (pc = "responses" /\ options.extractCommonResponses) =>
    LET before == CollectResponses(prev, NoKey)
        after == CollectResponses(spec, NoKey)
        table == ComponentTable(spec, "responses")
    IN /\ Len(after) = Len(before)
       /\ \A i \in 1..Len(before) : HasKey(before[i], "$ref") => after[i] = before[i]
       /\ \A n \in KeySet(table) \ KeySet(ComponentTable(prev, "responses")) :
            ~HasKey(Get(table, n), "$ref")

\* C29, for the inline responses next to the references: those of a group
\* of three or more are the only entries rewritten.
C29_InlineResponsesRewritten ==
  (pc = "responses" /\ options.extractCommonResponses) =>
    LET before == CollectResponses(prev, NoKey)
        after == CollectResponses(spec, NoKey)
    IN \A i \in 1..Len(before) :
         (~HasKey(before[i], "$ref")
            /\ Occurrences(before, CreateResponseKey, CreateResponseKey(before[i])) < 3) =>
           after[i] = before[i]

\* C30: whatever the input and the options, the reported counts of removed
\* examples, descriptions, summaries and tags are all at least 0: the
\* output has no more occurrences of these keys than the input.
C30_NonNegativeCounts ==
  pc = "done" =>
    /\ removedElements.examples >= 0
    /\ removedElements.descriptions >= 0
    /\ removedElements.summaries >= 0
    /\ removedElements.tags >= 0

\* C30, for the three counts other than descriptions.
C30_OtherCountsNonNegative ==
  pc = "done" =>
    /\ removedElements.examples >= 0
    /\ removedElements.summaries >= 0
    /\ removedElements.tags >= 0

====
